---- MODULE Spec2Model ----
(***************************************************************************)
(* A model of the multiplayer coin-flip session coordinator:               *)
(*   - GameRoom  (src/internal/network/room.go): roster, round lifecycle,  *)
(*     timers, betting ledger, bounded event queue;                        *)
(*   - Server / Client (src/unnamed/part_000): connection registry, room   *)
(*     table, relay, keepalive, reaping, shutdown.                         *)
(* Room operations are operators from a room record to a room record, in   *)
(* the order of the statements of the Go method they model.  A Go panic    *)
(* (send on / close of a closed channel, nil dereference) is recorded in   *)
(* the field "fault"; a panic in a goroutine without recover ends the      *)
(* process, so no action is enabled once a fault is recorded.              *)
(* Balances and amounts are float64 in the source; the model draws them    *)
(* from small integers, which float64 represents exactly.                  *)
(***************************************************************************)
EXTENDS Integers, Sequences, FiniteSets, TLC

\* ------------------------------------------------------------- bounds
\* Player ids the environment uses.
NumPlayers == 2
\* Room objects that can be constructed during one run.
MaxRoomObjs == 2
\* Room ids and connections the server-level specification uses.
NumRoomIds == 1
NumClients == 2
\* Inbound messages the server reads, over all connections.
MaxMsgs == 2
\* Calls of Server.Stop.
MaxStops == 2
\* Capacity of a connection's outbound buffer in the model (256 in the source).
SendCap == 1
\* Rounds a room may start (caps the round counter).
MaxRounds == 2
\* Rounds a room may start when callers pass any string as the choice.
AnyChoiceRounds == 1
\* Capacity of a room's event queue in the model (100 in the source).
EventCap == 1
\* Auto-start / grace goroutines that may be pending at once.
MaxTasks == 2
\* Connections a NetworkClient may dial successfully.
MaxDials == 2
\* API calls the caller of a NetworkClient may make.
MaxCalls == 3
\* Largest retry budget (maxReconnects) a NetworkClient is built with.
CfgMaxReconnects == 2
\* Capacity of a NetworkClient's error channel in the model (10 in the source).
ErrorCap == 2
\* Players the single-player engine's callers name.
NumEnginePlayers == 1
\* API calls made on the single-player engine.
MaxEngineCalls == 4
\* Configuration of the single-player engine (game.Config).
EngStartingBalance == 2
EngMinBet == 1
EngMaxBet == 2
EngPayoutRatio == 2
\* Room configuration used by the room-level specification.
CfgMaxPlayers == 2
CfgMaxBet == 1
\* The one starting balance a join supplies in the model.
JoinBalance == 1

\* -------------------------------------------------- program constants
DefaultMinPlayers == 2
DefaultMaxPlayers == 8
DefaultMinBet == 1
DefaultMaxBet == 100
DefaultPayoutRatio == 2

PlayerIds == 1..NumPlayers
RoomObjs == 1..MaxRoomObjs
RoomIds == 1..NumRoomIds
ClientIds == 1..NumClients
Sides == {"heads", "tails"}
\* A game.Side is a string: what a caller can pass as a choice includes
\* values for which Side.IsValid() is false.
Choices == Sides \cup {"edge"}
None == "none"
NoFault == "none"

StateWaiting == "waiting"
StateBetting == "betting"
StateRevealing == "revealing"
StateResult == "result"
StatePaused == "paused"

ErrNone == "ok"
ErrRoomFull == "RoomFull"
ErrPlayerNotFound == "PlayerNotFound"
ErrInvalidGamePhase == "InvalidPhase"
ErrPlayerAlreadyBet == "DuplicateBet"
ErrInvalidBetAmount == "InvalidAmount"
ErrInsufficientBalance == "InsufficientBalance"
ErrNotEnoughPlayers == "NotEnoughPlayers"
ErrNoActiveRound == "NoActiveRound"
ErrGameNotActive == "GameNotActive"
ErrInvalidChoice == "InvalidChoice"

\* The empty map.
EmptyMap == [x \in {} |-> 0]

\* m with key k removed (Go's delete(m, k)).
MapDelete(m, k) == [x \in (DOMAIN m) \ {k} |-> m[x]]

\* m with m[k] = v (Go's m[k] = v, insert or overwrite).
MapPut(m, k, v) == [x \in (DOMAIN m) \cup {k} |-> IF x = k THEN v ELSE m[x]]

\* ------------------------------------------------------ room: records
TestRoomConfig ==
    [MinPlayers |-> DefaultMinPlayers, MaxPlayers |-> CfgMaxPlayers,
     MinBet |-> DefaultMinBet, MaxBet |-> CfgMaxBet,
     PayoutRatio |-> DefaultPayoutRatio]

\* A room with space for one player more than a round needs.
WideRoomConfig ==
    [MinPlayers |-> DefaultMinPlayers, MaxPlayers |-> DefaultMinPlayers + 1,
     MinBet |-> DefaultMinBet, MaxBet |-> CfgMaxBet,
     PayoutRatio |-> DefaultPayoutRatio]

DefaultRoomConfig ==
    [MinPlayers |-> DefaultMinPlayers, MaxPlayers |-> DefaultMaxPlayers,
     MinBet |-> DefaultMinBet, MaxBet |-> DefaultMaxBet,
     PayoutRatio |-> DefaultPayoutRatio]

\* A nil *BetData (Amount 0 stands for the nil pointer).
NoBet == [Amount |-> 0, Choice |-> None]

\* A RoomPlayer.  JoinBase is a history field, not in the source: the
\* balance supplied at the join that created this record plus, for each
\* round resolved since, payout minus bet amount.
NewRoomPlayer(balance) ==
    [Balance |-> balance, CurrentBet |-> NoBet, JoinBase |-> balance]

NewGameRound(id) ==
    [ID |-> id, Bets |-> EmptyMap, CoinResult |-> None, Results |-> EmptyMap]

\* A nil *GameRound (ID 0 stands for the nil pointer; round ids start at 1).
NoRound == NewGameRound(0)

\* The GameRoom a constructor returns.  timerArmed: r.timer is running;
\* endPending: betting-timer callbacks that fired and wait for the lock;
\* resultPending: result timers running; autoTasks / graceTasks: spawned
\* goroutines that will call StartGame; tickers / tickSending: countdown
\* goroutines waiting for a tick / past their check and about to send;
\* stopped: stopChan and eventChan are closed.
NewGameRoom(config) ==
    [players |-> EmptyMap,
     gameState |-> StateWaiting,
     currentRound |-> NoRound,
     config |-> config,
     timerArmed |-> FALSE,
     endPending |-> 0,
     resultPending |-> 0,
     autoTasks |-> 0,
     graceTasks |-> 0,
     tickers |-> 0,
     tickSending |-> 0,
     eventChan |-> << >>,
     stopped |-> FALSE,
     totalRounds |-> 0,
     fault |-> NoFault]

NumPlayersIn(rm) == Cardinality(DOMAIN rm.players)

HasRound(rm) == rm.currentRound # NoRound

\* The ledger of the current round (empty when there is none).
Ledger(rm) == IF HasRound(rm) THEN rm.currentRound.Bets ELSE EmptyMap

\* --------------------------------------------------- room: operations
\* broadcastMessage as it would be if a full queue gave up its oldest event.
broadcastMessage_DropsOldest(rm, kind) ==
    IF rm.fault # NoFault THEN rm
    ELSE IF rm.stopped THEN [rm EXCEPT !.fault = "send on closed channel"]
    ELSE IF Len(rm.eventChan) < EventCap
         THEN [rm EXCEPT !.eventChan = Append(@, kind)]
         ELSE [rm EXCEPT !.eventChan = Append(Tail(@), kind)]

\* select { case r.eventChan <- msg: default: drop }
broadcastMessage(rm, kind) ==
    IF rm.fault # NoFault THEN rm
    ELSE IF rm.stopped THEN [rm EXCEPT !.fault = "send on closed channel"]
    ELSE IF Len(rm.eventChan) < EventCap
         THEN [rm EXCEPT !.eventChan = Append(@, kind)]
         ELSE rm

broadcastRoomUpdate(rm) == broadcastMessage(rm, "room_update")

checkAndStartGame(rm) ==
    IF rm.fault # NoFault THEN rm
    ELSE IF NumPlayersIn(rm) >= rm.config.MinPlayers /\ rm.gameState = StateWaiting
         THEN [rm EXCEPT !.autoTasks = @ + 1]
         ELSE rm

\* AddPlayerErr as it would be without the capacity check.
AddPlayerErr_NoCapacityCheck(rm, playerID, balance) == ErrNone

AddPlayerErr(rm, playerID, balance) ==
    IF NumPlayersIn(rm) >= rm.config.MaxPlayers THEN ErrRoomFull ELSE ErrNone

AddPlayer(rm, playerID, balance) ==
    IF AddPlayerErr(rm, playerID, balance) # ErrNone THEN rm
    ELSE LET r1 == [rm EXCEPT !.players = MapPut(@, playerID, NewRoomPlayer(balance))]
         IN  checkAndStartGame(broadcastRoomUpdate(r1))

\* pauseGame as it would be if pausing discarded the round.
pauseGame_DiscardsRound(rm) ==
    broadcastRoomUpdate([rm EXCEPT !.timerArmed = FALSE, !.gameState = StatePaused,
                                   !.currentRound = NoRound])

pauseGame(rm) ==
    broadcastRoomUpdate([rm EXCEPT !.timerArmed = FALSE, !.gameState = StatePaused])

RemovePlayerErr(rm, playerID) ==
    IF playerID \notin DOMAIN rm.players THEN ErrPlayerNotFound ELSE ErrNone

\* The RoomPlayer that RemovePlayer holds in `player` when it reaches
\* delete(r.players, playerID): the roster's record, credited with the
\* amount of its ledger entry if the round has one.
RemovedPlayer(rm, playerID) ==
    IF HasRound(rm) /\ playerID \in DOMAIN rm.currentRound.Bets
    THEN [rm.players[playerID] EXCEPT !.Balance = @ + rm.currentRound.Bets[playerID].Amount]
    ELSE rm.players[playerID]

\* RemovePlayer as it would be if it left the ledger alone.
RemovePlayer_KeepsBet(rm, playerID) ==
    IF RemovePlayerErr(rm, playerID) # ErrNone THEN rm
    ELSE LET r2 == [rm EXCEPT !.players = MapDelete(@, playerID)]
             r3 == IF NumPlayersIn(r2) < r2.config.MinPlayers /\ r2.gameState = StateBetting
                   THEN pauseGame(r2)
                   ELSE r2
         IN  broadcastRoomUpdate(r3)

\* The refund goes to the RoomPlayer that is deleted two statements later,
\* so only the ledger entry's removal is visible afterwards.
RemovePlayer(rm, playerID) ==
    IF RemovePlayerErr(rm, playerID) # ErrNone THEN rm
    ELSE LET r1 == IF HasRound(rm) /\ playerID \in DOMAIN rm.currentRound.Bets
                   THEN [rm EXCEPT !.currentRound.Bets = MapDelete(@, playerID)]
                   ELSE rm
             r2 == [r1 EXCEPT !.players = MapDelete(@, playerID)]
             r3 == IF NumPlayersIn(r2) < r2.config.MinPlayers /\ r2.gameState = StateBetting
                   THEN pauseGame(r2)
                   ELSE r2
         IN  broadcastRoomUpdate(r3)

\* PlaceBetErr as it would be with the amount validated before the
\* duplicate check.
PlaceBetErr_AmountFirst(rm, playerID, amount, choice) ==
    IF rm.gameState # StateBetting THEN ErrInvalidGamePhase
    ELSE IF playerID \notin DOMAIN rm.players THEN ErrPlayerNotFound
    ELSE IF ~HasRound(rm) THEN ErrNoActiveRound
    ELSE IF amount < rm.config.MinBet \/ amount > rm.config.MaxBet THEN ErrInvalidBetAmount
    ELSE IF playerID \in DOMAIN rm.currentRound.Bets THEN ErrPlayerAlreadyBet
    ELSE IF rm.players[playerID].Balance < amount THEN ErrInsufficientBalance
    ELSE ErrNone

\* PlaceBetErr as it would be without the phase check.
PlaceBetErr_NoPhaseCheck(rm, playerID, amount, choice) ==
    IF playerID \notin DOMAIN rm.players THEN ErrPlayerNotFound
    ELSE IF ~HasRound(rm) THEN ErrNoActiveRound
    ELSE IF playerID \in DOMAIN rm.currentRound.Bets THEN ErrPlayerAlreadyBet
    ELSE IF amount < rm.config.MinBet \/ amount > rm.config.MaxBet THEN ErrInvalidBetAmount
    ELSE IF rm.players[playerID].Balance < amount THEN ErrInsufficientBalance
    ELSE ErrNone

\* PlaceBetErr as it would be without the duplicate check.
PlaceBetErr_NoDuplicateCheck(rm, playerID, amount, choice) ==
    IF rm.gameState # StateBetting THEN ErrInvalidGamePhase
    ELSE IF playerID \notin DOMAIN rm.players THEN ErrPlayerNotFound
    ELSE IF ~HasRound(rm) THEN ErrNoActiveRound
    ELSE IF amount < rm.config.MinBet \/ amount > rm.config.MaxBet THEN ErrInvalidBetAmount
    ELSE IF rm.players[playerID].Balance < amount THEN ErrInsufficientBalance
    ELSE ErrNone

PlaceBetErr(rm, playerID, amount, choice) ==
    IF rm.gameState # StateBetting THEN ErrInvalidGamePhase
    ELSE IF playerID \notin DOMAIN rm.players THEN ErrPlayerNotFound
    ELSE IF ~HasRound(rm) THEN ErrNoActiveRound
    ELSE IF playerID \in DOMAIN rm.currentRound.Bets THEN ErrPlayerAlreadyBet
    ELSE IF amount < rm.config.MinBet \/ amount > rm.config.MaxBet THEN ErrInvalidBetAmount
    ELSE IF rm.players[playerID].Balance < amount THEN ErrInsufficientBalance
    ELSE ErrNone

\* PlaceBet as it would be if the amount were reserved, not deducted.
PlaceBet_NoDebit(rm, playerID, amount, choice) ==
    IF PlaceBetErr(rm, playerID, amount, choice) # ErrNone THEN rm
    ELSE LET bet == [Amount |-> amount, Choice |-> choice]
             r1 == [rm EXCEPT !.players[playerID].CurrentBet = bet,
                              !.currentRound.Bets = MapPut(@, playerID, bet)]
         IN  broadcastRoomUpdate(broadcastMessage(r1, "bet_placed"))

PlaceBet(rm, playerID, amount, choice) ==
    IF PlaceBetErr(rm, playerID, amount, choice) # ErrNone THEN rm
    ELSE LET bet == [Amount |-> amount, Choice |-> choice]
             r1 == [rm EXCEPT !.players[playerID].Balance = @ - amount,
                              !.players[playerID].CurrentBet = bet,
                              !.currentRound.Bets = MapPut(@, playerID, bet)]
         IN  broadcastRoomUpdate(broadcastMessage(r1, "bet_placed"))

\* Stops the previous r.timer, arms a new one, starts a countdown goroutine.
startBettingPhase(rm) ==
    broadcastMessage([rm EXCEPT !.timerArmed = TRUE, !.tickers = @ + 1], "bet_phase")

\* StartGameErr as it would be without the roster check.
StartGameErr_NoRosterCheck(rm) ==
    IF rm.gameState # StateWaiting THEN ErrInvalidGamePhase ELSE ErrNone

StartGameErr(rm) ==
    IF NumPlayersIn(rm) < rm.config.MinPlayers THEN ErrNotEnoughPlayers
    ELSE IF rm.gameState # StateWaiting THEN ErrInvalidGamePhase
    ELSE ErrNone

StartGame(rm) ==
    IF StartGameErr(rm) # ErrNone THEN rm
    ELSE LET r1 == [rm EXCEPT !.currentRound = NewGameRound(rm.totalRounds + 1),
                              !.gameState = StateBetting,
                              !.totalRounds = @ + 1]
         IN  broadcastMessage(startBettingPhase(r1), "game_start")

\* PlayerResult as it would be if a losing bet were returned.
PlayerResult_RefundsLosers(rm, playerID, coinResult) ==
    LET bet == rm.currentRound.Bets[playerID]
        won == bet.Choice = coinResult
        payout == IF won THEN bet.Amount * rm.config.PayoutRatio ELSE bet.Amount
    IN  [Bet |-> bet, Won |-> won, Payout |-> payout,
         NewBalance |-> rm.players[playerID].Balance + payout]

\* One bettor's result against the shared coin result.
PlayerResult(rm, playerID, coinResult) ==
    LET bet == rm.currentRound.Bets[playerID]
        won == bet.Choice = coinResult
        payout == IF won THEN bet.Amount * rm.config.PayoutRatio ELSE 0
    IN  [Bet |-> bet, Won |-> won, Payout |-> payout,
         NewBalance |-> rm.players[playerID].Balance + payout]

\* r.players[playerID] of a bettor who is not in the roster is nil, and
\* player.Balance then panics.
generateFinalResult(rm, coinResult) ==
    LET bets == rm.currentRound.Bets IN
    IF \E p \in DOMAIN bets : p \notin DOMAIN rm.players
    THEN [rm EXCEPT !.fault = "nil pointer dereference"]
    ELSE [rm EXCEPT
            !.currentRound.CoinResult = coinResult,
            !.currentRound.Results =
                [p \in DOMAIN bets |-> PlayerResult(rm, p, coinResult)],
            !.players =
                [p \in DOMAIN rm.players |->
                    IF p \in DOMAIN bets
                    THEN LET res == PlayerResult(rm, p, coinResult)
                         IN  [rm.players[p] EXCEPT
                                !.Balance = res.NewBalance,
                                !.CurrentBet = NoBet,
                                !.JoinBase = @ + res.Payout - bets[p].Amount]
                    ELSE rm.players[p]]]

\* startResultPhase as it would be without the result timer.
startResultPhase_NoTimer(rm) ==
    IF rm.fault # NoFault THEN rm
    ELSE broadcastMessage([rm EXCEPT !.gameState = StateResult], "game_result")

\* Sets the phase, emits the result, arms the (unstored) result timer.
startResultPhase(rm) ==
    IF rm.fault # NoFault THEN rm
    ELSE LET r1 == broadcastMessage([rm EXCEPT !.gameState = StateResult], "game_result")
         IN  IF r1.fault # NoFault THEN r1
             ELSE [r1 EXCEPT !.resultPending = @ + 1]

\* endBettingPhase as it would be if a round without bets were resolved
\* like any other.
endBettingPhase_AlwaysResolves(rm, coinResult) ==
    IF rm.gameState # StateBetting THEN rm
    ELSE startResultPhase(
            generateFinalResult([rm EXCEPT !.gameState = StateRevealing], coinResult))

\* endBettingPhase as it would be without the phase guard.
endBettingPhase_NoPhaseGuard(rm, coinResult) ==
    IF Cardinality(DOMAIN rm.currentRound.Bets) = 0
    THEN broadcastRoomUpdate(
           [rm EXCEPT !.gameState = StateWaiting, !.currentRound = NoRound])
    ELSE startResultPhase(
           generateFinalResult([rm EXCEPT !.gameState = StateRevealing], coinResult))

\* endBettingPhase as it would be if a round without bets kept its round.
endBettingPhase_KeepsRound(rm, coinResult) ==
    IF rm.gameState # StateBetting THEN rm
    ELSE IF Cardinality(DOMAIN rm.currentRound.Bets) = 0
         THEN broadcastRoomUpdate([rm EXCEPT !.gameState = StateWaiting])
         ELSE startResultPhase(
                generateFinalResult([rm EXCEPT !.gameState = StateRevealing], coinResult))

\* StateRevealing is assigned and overwritten inside the same critical
\* section, so no other operation observes it.
endBettingPhase(rm, coinResult) ==
    IF rm.gameState # StateBetting THEN rm
    ELSE IF Cardinality(DOMAIN rm.currentRound.Bets) = 0
         THEN broadcastRoomUpdate(
                [rm EXCEPT !.gameState = StateWaiting, !.currentRound = NoRound])
         ELSE startResultPhase(
                generateFinalResult([rm EXCEPT !.gameState = StateRevealing], coinResult))

\* The result timer's callback as it would be if it scheduled the restart
\* whatever the roster.
resultTimerCallback_AlwaysRestarts(rm) ==
    LET r1 == broadcastRoomUpdate(
                [rm EXCEPT !.gameState = StateWaiting, !.currentRound = NoRound])
    IN  IF r1.fault # NoFault THEN r1
        ELSE [r1 EXCEPT !.graceTasks = @ + 1]

\* The result timer's callback.
resultTimerCallback(rm) ==
    LET r1 == broadcastRoomUpdate(
                [rm EXCEPT !.gameState = StateWaiting, !.currentRound = NoRound])
    IN  IF r1.fault # NoFault THEN r1
        ELSE IF NumPlayersIn(r1) >= r1.config.MinPlayers
             THEN [r1 EXCEPT !.graceTasks = @ + 1]
             ELSE r1

\* close(r.stopChan) panics when the channel is already closed.
RoomStop(rm) ==
    LET r1 == [rm EXCEPT !.timerArmed = FALSE] IN
    IF rm.stopped THEN [r1 EXCEPT !.fault = "close of closed channel"]
    ELSE [r1 EXCEPT !.stopped = TRUE]

\* ------------------------------------------------- server: records
\* A Client before its connection is accepted.  conn: "new", "open" or
\* "closed"; reg: the value s.clients holds for the client (-1: no entry,
\* 0: nil, o: room object o); room / playerID: the Client's own fields
\* (0: nil / ""); send / sendClosed: the outbound buffer; rpc: where
\* readPump is; jroom, jrid, jpid: handleJoinRoom's local room and the
\* message's room id and player id; writer: writePump is running.
NewClient ==
    [conn |-> "new", reg |-> -1, room |-> 0, playerID |-> 0,
     send |-> << >>, sendClosed |-> FALSE,
     rpc |-> "none", jroom |-> 0, jrid |-> 0, jpid |-> 0,
     writer |-> FALSE]

\* The Server a constructor returns, with its run and cleanup loops
\* started.  table: s.rooms (0: no entry); made: room objects constructed so
\* far; stopCalls: calls of Stop so far (the context is cancelled from the
\* first on); msgs: inbound messages read so far, over all connections;
\* scan: the room ids performCleanup's loop has still to visit, and reaping:
\* the room id it found empty and is about to stop and delete (0: none).
NewServer ==
    [table |-> [rid \in RoomIds |-> 0], made |-> 0,
     stopCalls |-> 0, msgs |-> 0, fault |-> NoFault,
     scan |-> {}, reaping |-> 0]

\* The relay goroutine of a room object (handleRoomEvents).  inLoop: it is
\* inside broadcastToRoom's read-locked loop; msg: the data being sent;
\* todo: the clients the loop has still to visit; closing: the client whose
\* select took the default branch and whose close/delete is next (0: none).
NewRelay == [inLoop |-> FALSE, msg |-> None, todo |-> {}, closing |-> 0]

\* ------------------------------------------ remote client: records
\* The connections a NetworkClient dials, in the order of their dialing.
Dials == 1..MaxDials

\* The room ids the caller of a NetworkClient names.
CallRoomIds == 1..(NumRoomIds + 1)

\* No API call of the caller is in progress.
NoCall == [op |-> None, rid |-> 0, stage |-> None]

\* The NetworkClient NewNetworkClient returns.  conn: c.conn (0: nil, g: the
\* g-th connection dialed); open: the connections neither end has closed;
\* cancelled: c.cancel() was called (c.ctx is never renewed); currentRoom:
\* 0 for "".  pump[g]: the readPump started with connection g ("start":
\* at its select, "deref": about to evaluate c.conn, "read": inside
\* ReadMessage on connection readOn[g], "exit": returned, its deferred
\* handleDisconnect waiting for c.mu, "notify": handleDisconnect after its
\* critical section, "done").  atStart, atDial, atRejoin: attemptReconnect
\* goroutines before reconnectCount++, asleep before Connect(), and after a
\* Connect() that returned nil.  rejoin: the room id of the JoinRoom that
\* attemptReconnect is inside, past sendMessage's test (0: none).  call:
\* the caller's JoinRoom or LeaveRoom in progress; calls: API calls made so
\* far.  wire: what was written to a connection, as <<connection, type,
\* room id>>.
NewNetworkClient(maxReconnects) ==
    [maxReconnects |-> maxReconnects,
     connected |-> FALSE, conn |-> 0, dials |-> 0, open |-> {},
     cancelled |-> FALSE, currentRoom |-> 0, reconnectCount |-> 0,
     errorChan |-> << >>,
     pump |-> [g \in Dials |-> "none"], readOn |-> [g \in Dials |-> 0],
     atStart |-> 0, atDial |-> 0, atRejoin |-> 0, rejoin |-> 0,
     call |-> NoCall, calls |-> 0,
     wire |-> << >>, fault |-> NoFault]

\* --------------------------------------- remote client: operations
\* select { case c.errorChan <- err: default: }
SendError(n, err) ==
    IF Len(n.errorChan) < ErrorCap THEN [n EXCEPT !.errorChan = Append(@, err)] ELSE n

\* if c.conn != nil { c.conn.Close(); c.conn = nil }
CloseConn(n) ==
    IF n.conn # 0 THEN [n EXCEPT !.open = @ \ {n.conn}, !.conn = 0] ELSE n

\* Connect returns an error: it was not connected and the dial failed.
ConnectErr(n, dialOk) == ~n.connected /\ ~dialOk

\* Connect, under c.mu from entry to return; dialOk: the dial succeeds.
Connect(n, dialOk) ==
    IF n.connected \/ ~dialOk THEN n
    ELSE LET g == n.dials + 1 IN
         [n EXCEPT !.conn = g, !.connected = TRUE, !.reconnectCount = 0,
                   !.dials = g, !.open = @ \cup {g}, !.pump[g] = "start"]

\* Disconnect, under c.mu from entry to return.
Disconnect(n) ==
    IF ~n.connected THEN n
    ELSE CloseConn([n EXCEPT !.cancelled = TRUE, !.connected = FALSE])

\* handleDisconnect, its critical section, run by the readPump of
\* connection g.
handleDisconnectLocked(n, g) ==
    CloseConn([n EXCEPT !.connected = FALSE, !.pump[g] = "notify"])

\* handleDisconnect as it would be if it spawned attemptReconnect whatever
\* the budget.
handleDisconnect_IgnoresBudget(n, g) ==
    [SendError([n EXCEPT !.pump[g] = "done"], "connection lost")
        EXCEPT !.atStart = @ + 1]

\* handleDisconnect after its critical section: the error, then the test of
\* the budget.
handleDisconnect(n, g) ==
    LET n1 == SendError([n EXCEPT !.pump[g] = "done"], "connection lost") IN
    IF n1.maxReconnects > 0 /\ n1.reconnectCount < n1.maxReconnects
    THEN [n1 EXCEPT !.atStart = @ + 1]
    ELSE n1

\* attemptReconnect up to time.Sleep.
attemptReconnectBegin(n) ==
    [n EXCEPT !.atStart = @ - 1, !.reconnectCount = @ + 1, !.atDial = @ + 1]

\* attemptReconnect from Connect() to its return or to the rejoin.
attemptReconnectDial(n, dialOk) ==
    LET n0 == [n EXCEPT !.atDial = @ - 1] IN
    IF ConnectErr(n0, dialOk)
    THEN IF n0.reconnectCount < n0.maxReconnects
         THEN [n0 EXCEPT !.atStart = @ + 1]
         ELSE SendError(n0, "max reconnection attempts reached")
    ELSE [Connect(n0, dialOk) EXCEPT !.atRejoin = @ + 1]

\* attemptReconnect as it would be if it rejoined the first room id
\* whatever room the client was in.
attemptReconnectRejoin_FirstRoom(n) ==
    LET n0 == [n EXCEPT !.atRejoin = @ - 1] IN
    IF ~n0.connected \/ n0.conn = 0 THEN n0
    ELSE [n0 EXCEPT !.rejoin = 1]

\* attemptReconnect after Connect() returned nil: currentRoom is read, and
\* if it is not "" JoinRoom is called, which gets as far as sendMessage's
\* test of c.connected and c.conn.
attemptReconnectRejoin(n) ==
    LET n0 == [n EXCEPT !.atRejoin = @ - 1] IN
    IF n0.currentRoom = 0 THEN n0
    ELSE IF ~n0.connected \/ n0.conn = 0 THEN n0
    ELSE [n0 EXCEPT !.rejoin = n0.currentRoom]

\* sendMessage after its test: c.conn is evaluated again, without c.mu, for
\* SetWriteDeadline and WriteMessage.
WriteFails(n) == n.conn = 0 \/ n.conn \notin n.open

WriteMessage(n, type, rid) ==
    IF n.conn = 0 THEN [n EXCEPT !.fault = "nil pointer dereference"]
    ELSE IF n.conn \in n.open THEN [n EXCEPT !.wire = Append(@, <<n.conn, type, rid>>)]
    ELSE n

\* The JoinRoom of attemptReconnect from the write on.
rejoinWrite(n) ==
    LET n1 == WriteMessage([n EXCEPT !.rejoin = 0], "join_room", n.rejoin) IN
    IF WriteFails(n) THEN n1 ELSE [n1 EXCEPT !.currentRoom = n.rejoin]

\* --------------------------------------- single-player engine: records
EnginePlayerIds == 1..NumEnginePlayers

EngineConfig ==
    [StartingBalance |-> EngStartingBalance, MinBet |-> EngMinBet,
     MaxBet |-> EngMaxBet, PayoutRatio |-> EngPayoutRatio]

\* The Player CreatePlayer builds: the starting balance and Stats{}.  (WinRate
\* is GamesWon / GamesPlayed * 100 and is not kept.)
NewPlayer ==
    [Balance |-> EngineConfig.StartingBalance,
     GamesPlayed |-> 0, GamesWon |-> 0,
     TotalWagered |-> 0, TotalWinnings |-> 0, NetProfit |-> 0]

\* What the engine's collaborators do during one call: the repository's
\* GetPlayer, the SavePlayer of CreatePlayer, the method's own SavePlayer
\* and SaveResult return nil or an error, the random generator returns a
\* seed or an error, and a side or an error.  A save that returns an error
\* stores nothing.
EngineIO ==
    [getOk : BOOLEAN, createOk : BOOLEAN, saveOk : BOOLEAN, resultOk : BOOLEAN,
     seedOk : BOOLEAN, flipOk : BOOLEAN, coin : Sides]

\* The collaborators all work.
AllOk(io) ==
    io.getOk /\ io.createOk /\ io.saveOk /\ io.resultOk /\ io.seedOk /\ io.flipOk

\* NewEngine with an empty repository.  players: the repository's players;
\* results: how many Results it holds; ret: the method last called and the
\* error it returned; calls: the calls made so far.
NewEngine ==
    [config |-> EngineConfig, currentBet |-> NoBet,
     players |-> EmptyMap, results |-> 0,
     ret |-> [op |-> None, err |-> ErrNone], calls |-> 0]

\* ------------------------------------ single-player engine: operations
Return(e, op, err) == [e EXCEPT !.ret = [op |-> op, err |-> err]]

\* Engine.GetPlayer: the repository's GetPlayer, and CreatePlayer on any
\* error of it.  The result is the engine afterwards, the Player returned
\* and whether the error is nil.
EngineGetPlayer(e, playerID, io) ==
    IF playerID \in DOMAIN e.players /\ io.getOk
    THEN [e |-> e, player |-> e.players[playerID], ok |-> TRUE]
    ELSE IF io.createOk
    THEN [e |-> [e EXCEPT !.players = MapPut(@, playerID, NewPlayer)],
          player |-> NewPlayer, ok |-> TRUE]
    ELSE [e |-> e, player |-> NewPlayer, ok |-> FALSE]

\* Engine.PlaceBet as it would be if it recorded the bet before saving the
\* player.
EnginePlaceBet_BetBeforeSave(e, playerID, amount, choice, io) ==
    IF choice \notin Sides THEN Return(e, "PlaceBet", ErrInvalidChoice)
    ELSE IF amount < e.config.MinBet \/ amount > e.config.MaxBet
    THEN Return(e, "PlaceBet", ErrInvalidBetAmount)
    ELSE LET g == EngineGetPlayer(e, playerID, io)
             bet == [Amount |-> amount, Choice |-> choice] IN
         IF ~g.ok THEN Return(g.e, "PlaceBet", "failed to get player")
         ELSE IF g.player.Balance < amount
         THEN Return(g.e, "PlaceBet", ErrInsufficientBalance)
         ELSE IF ~io.saveOk
         THEN Return([g.e EXCEPT !.currentBet = bet], "PlaceBet",
                     "failed to update player balance")
         ELSE Return([g.e EXCEPT
                        !.players = MapPut(@, playerID,
                                           [g.player EXCEPT !.Balance = @ - amount]),
                        !.currentBet = bet], "PlaceBet", ErrNone)

\* Engine.PlaceBet.
EnginePlaceBet(e, playerID, amount, choice, io) ==
    IF choice \notin Sides THEN Return(e, "PlaceBet", ErrInvalidChoice)
    ELSE IF amount < e.config.MinBet \/ amount > e.config.MaxBet
    THEN Return(e, "PlaceBet", ErrInvalidBetAmount)
    ELSE LET g == EngineGetPlayer(e, playerID, io)
             bet == [Amount |-> amount, Choice |-> choice] IN
         IF ~g.ok THEN Return(g.e, "PlaceBet", "failed to get player")
         ELSE IF g.player.Balance < amount
         THEN Return(g.e, "PlaceBet", ErrInsufficientBalance)
         ELSE IF ~io.saveOk
         THEN Return(g.e, "PlaceBet", "failed to update player balance")
         ELSE Return([g.e EXCEPT
                        !.players = MapPut(@, playerID,
                                           [g.player EXCEPT !.Balance = @ - amount]),
                        !.currentBet = bet], "PlaceBet", ErrNone)

\* The Player FlipCoin saves: the payout added if the bet won, and the
\* statistics of one more game.
Settled(player, bet, won, payout) ==
    LET wagered == player.TotalWagered + bet.Amount
        winnings == player.TotalWinnings + (IF won THEN payout ELSE 0) IN
    [Balance |-> player.Balance + (IF won THEN payout ELSE 0),
     GamesPlayed |-> player.GamesPlayed + 1,
     GamesWon |-> player.GamesWon + (IF won THEN 1 ELSE 0),
     TotalWagered |-> wagered, TotalWinnings |-> winnings,
     NetProfit |-> winnings - wagered]

\* Engine.FlipCoin.
EngineFlipCoin(e, playerID, io) ==
    IF e.currentBet = NoBet THEN Return(e, "FlipCoin", ErrGameNotActive)
    ELSE IF ~io.seedOk THEN Return(e, "FlipCoin", "failed to generate random seed")
    ELSE IF ~io.flipOk THEN Return(e, "FlipCoin", "failed to flip coin")
    ELSE LET won == e.currentBet.Choice = io.coin
             payout == IF won THEN e.currentBet.Amount * e.config.PayoutRatio ELSE 0
             g == EngineGetPlayer(e, playerID, io)
             saved == [g.e EXCEPT
                         !.players = MapPut(@, playerID,
                                            Settled(g.player, e.currentBet, won, payout))] IN
         IF ~g.ok THEN Return(g.e, "FlipCoin", "failed to get player for result processing")
         ELSE IF ~io.saveOk THEN Return(g.e, "FlipCoin", "failed to save player")
         ELSE IF ~io.resultOk THEN Return(saved, "FlipCoin", "failed to save result")
         ELSE Return([saved EXCEPT !.results = @ + 1, !.currentBet = NoBet],
                     "FlipCoin", ErrNone)

\* Engine.CancelCurrentBet as it would be if it cleared the bet without a
\* refund.
EngineCancelCurrentBet_NoRefund(e, playerID, io) ==
    IF e.currentBet = NoBet THEN Return(e, "CancelCurrentBet", ErrGameNotActive)
    ELSE Return([e EXCEPT !.currentBet = NoBet], "CancelCurrentBet", ErrNone)

\* Engine.CancelCurrentBet.
EngineCancelCurrentBet(e, playerID, io) ==
    IF e.currentBet = NoBet THEN Return(e, "CancelCurrentBet", ErrGameNotActive)
    ELSE LET g == EngineGetPlayer(e, playerID, io) IN
         IF ~g.ok THEN Return(g.e, "CancelCurrentBet", "failed to get player for refund")
         ELSE IF ~io.saveOk THEN Return(g.e, "CancelCurrentBet", "failed to refund player")
         ELSE Return([g.e EXCEPT
                        !.players = MapPut(@, playerID,
                                           [g.player EXCEPT
                                              !.Balance = @ + e.currentBet.Amount]),
                        !.currentBet = NoBet], "CancelCurrentBet", ErrNone)

\* -------------------------------------------------------------- state
\* rooms, srv, clients and relay are the server process; net is one remote
\* NetworkClient, a process of its own; eng is one single-player game.Engine
\* with its repository.
VARIABLES rooms, srv, clients, relay, net, eng

vars == <<rooms, srv, clients, relay, net, eng>>

\* What a room's own methods and timers leave alone.
serverVars == <<srv, clients, relay, net, eng>>

\* What the remote client's methods and goroutines leave alone.
coordVars == <<rooms, srv, clients, relay, eng>>

\* What the single-player engine's methods leave alone.
multiplayerVars == <<rooms, srv, clients, relay, net>>

Faulted ==
    \/ \E o \in RoomObjs : rooms[o].fault # NoFault
    \/ srv.fault # NoFault

SetRoom(o, rm) == rooms' = [rooms EXCEPT ![o] = rm]

BetAmounts == 0..(CfgMaxBet + 1)

\* ---------------------------------------------- room: calls and timers
\* The model keeps at most MaxTasks auto-start goroutines pending.
TaskBudget(rm) == rm.autoTasks <= MaxTasks

\* The model stops starting rounds at maxRounds; a StartGame that fails
\* anyway is not held back.
RoundBudget(o, maxRounds) ==
    StartGameErr(rooms[o]) # ErrNone \/ rooms[o].totalRounds < maxRounds

CallAddPlayer(o, p, balance) ==
    /\ ~Faulted
    /\ TaskBudget(AddPlayer(rooms[o], p, balance))
    /\ SetRoom(o, AddPlayer(rooms[o], p, balance))
    /\ UNCHANGED serverVars

CallRemovePlayer(o, p) ==
    /\ ~Faulted
    /\ SetRoom(o, RemovePlayer(rooms[o], p))
    /\ UNCHANGED serverVars

CallPlaceBet(o, p, amount, choice) ==
    /\ ~Faulted
    /\ SetRoom(o, PlaceBet(rooms[o], p, amount, choice))
    /\ UNCHANGED serverVars

CallStartGame(o, maxRounds) ==
    /\ ~Faulted
    /\ RoundBudget(o, maxRounds)
    /\ SetRoom(o, StartGame(rooms[o]))
    /\ UNCHANGED serverVars

CallStop(o) ==
    /\ ~Faulted
    /\ SetRoom(o, RoomStop(rooms[o]))
    /\ UNCHANGED serverVars

\* The goroutine checkAndStartGame spawned runs StartGame.
AutoStart(o, maxRounds) ==
    /\ ~Faulted
    /\ rooms[o].autoTasks > 0
    /\ RoundBudget(o, maxRounds)
    /\ SetRoom(o, StartGame([rooms[o] EXCEPT !.autoTasks = @ - 1]))
    /\ UNCHANGED serverVars

\* The goroutine the result timer spawned wakes up and runs StartGame.
GraceStart(o, maxRounds) ==
    /\ ~Faulted
    /\ rooms[o].graceTasks > 0
    /\ RoundBudget(o, maxRounds)
    /\ SetRoom(o, StartGame([rooms[o] EXCEPT !.graceTasks = @ - 1]))
    /\ UNCHANGED serverVars

\* The betting timer expires: its callback is started and will take the lock.
BettingTimerFire(o) ==
    /\ ~Faulted
    /\ rooms[o].timerArmed
    /\ SetRoom(o, [rooms[o] EXCEPT !.timerArmed = FALSE, !.endPending = @ + 1])
    /\ UNCHANGED serverVars

\* A started betting-timer callback gets the lock and runs endBettingPhase.
BettingTimerCallback(o) ==
    /\ ~Faulted
    /\ rooms[o].endPending > 0
    /\ \E coinResult \in Sides :
         SetRoom(o, endBettingPhase([rooms[o] EXCEPT !.endPending = @ - 1], coinResult))
    /\ UNCHANGED serverVars

ResultTimerCallback(o) ==
    /\ ~Faulted
    /\ rooms[o].resultPending > 0
    /\ SetRoom(o, resultTimerCallback([rooms[o] EXCEPT !.resultPending = @ - 1]))
    /\ UNCHANGED serverVars

\* broadcastTimer, one wake-up of the select: on a tick it checks the phase
\* and the time left under the read lock; on stopChan it returns.  With both
\* ready the select picks either.
TickerWake(o) ==
    /\ ~Faulted
    /\ rooms[o].tickers > 0
    /\ \/ /\ rooms[o].gameState = StateBetting /\ rooms[o].timerArmed
          /\ SetRoom(o, [rooms[o] EXCEPT !.tickers = @ - 1, !.tickSending = @ + 1])
       \/ /\ ~(rooms[o].gameState = StateBetting /\ rooms[o].timerArmed)
          /\ SetRoom(o, [rooms[o] EXCEPT !.tickers = @ - 1])
       \/ /\ rooms[o].stopped
          /\ SetRoom(o, [rooms[o] EXCEPT !.tickers = @ - 1])
    /\ UNCHANGED serverVars

\* broadcastTimer after RUnlock: the timer_update is sent without the lock.
TickerSend(o) ==
    /\ ~Faulted
    /\ rooms[o].tickSending > 0
    /\ SetRoom(o, broadcastMessage(
            [rooms[o] EXCEPT !.tickSending = @ - 1, !.tickers = @ + 1], "timer_update"))
    /\ UNCHANGED serverVars

\* The reader of GetEventChannel() takes the oldest event.
ConsumeEvent(o) ==
    /\ ~Faulted
    /\ Len(rooms[o].eventChan) > 0
    /\ SetRoom(o, [rooms[o] EXCEPT !.eventChan = Tail(@)])
    /\ UNCHANGED serverVars

RoomTimers(o, maxRounds) ==
    \/ AutoStart(o, maxRounds)
    \/ GraceStart(o, maxRounds)
    \/ BettingTimerFire(o)
    \/ BettingTimerCallback(o)
    \/ ResultTimerCallback(o)
    \/ TickerWake(o)
    \/ TickerSend(o)

\* ------------------------------------------- room-level specification
\* One room, constructed with TestRoomConfig, driven through its exported
\* methods by any caller.
TheRoom == CHOOSE o \in RoomObjs : \A q \in RoomObjs : o <= q

Init ==
    /\ rooms = [o \in RoomObjs |-> NewGameRoom(TestRoomConfig)]
    /\ srv = NewServer
    /\ clients = [c \in ClientIds |-> NewClient]
    /\ relay = [o \in RoomObjs |-> NewRelay]
    /\ net = NewNetworkClient(0)
    /\ eng = NewEngine

\* The callers pass the choices `choices`; the room starts at most
\* maxRounds rounds.
NextRoom(choices, maxRounds) ==
    \/ \E p \in PlayerIds : CallAddPlayer(TheRoom, p, JoinBalance)
    \/ \E p \in PlayerIds : CallRemovePlayer(TheRoom, p)
    \/ \E p \in PlayerIds, a \in BetAmounts, c \in choices : CallPlaceBet(TheRoom, p, a, c)
    \/ CallStartGame(TheRoom, maxRounds)
    \/ CallStop(TheRoom)
    \/ RoomTimers(TheRoom, maxRounds)
    \/ ConsumeEvent(TheRoom)

\* Callers that pass valid sides only.
Next == NextRoom(Sides, MaxRounds)

Spec == Init /\ [][Next]_vars

\* Callers that pass any string as the choice.
NextAnyChoice == NextRoom(Choices, AnyChoiceRounds)

SpecAnyChoice == Init /\ [][NextAnyChoice]_vars

\* Callers that never call StartGame or Stop and call AddPlayer on a
\* Waiting room only before its first round: every auto-start goroutine was
\* spawned by an AddPlayer in the room's first Waiting period.
InitEarlyJoin ==
    /\ rooms = [o \in RoomObjs |-> NewGameRoom(WideRoomConfig)]
    /\ srv = NewServer
    /\ clients = [c \in ClientIds |-> NewClient]
    /\ relay = [o \in RoomObjs |-> NewRelay]
    /\ net = NewNetworkClient(0)
    /\ eng = NewEngine

NextEarlyJoin ==
    \/ \E p \in PlayerIds :
          /\ rooms[TheRoom].totalRounds = 0 \/ rooms[TheRoom].gameState # StateWaiting
          /\ CallAddPlayer(TheRoom, p, JoinBalance)
    \/ \E p \in PlayerIds : CallRemovePlayer(TheRoom, p)
    \/ \E p \in PlayerIds, a \in BetAmounts, c \in Sides : CallPlaceBet(TheRoom, p, a, c)
    \/ RoomTimers(TheRoom, MaxRounds)
    \/ ConsumeEvent(TheRoom)

SpecEarlyJoin == InitEarlyJoin /\ [][NextEarlyJoin]_vars

\* Timers fire and spawned goroutines get scheduled; callers are not obliged
\* to call anything.
FairSpec ==
    /\ Spec
    /\ WF_vars(AutoStart(TheRoom, MaxRounds))
    /\ WF_vars(GraceStart(TheRoom, MaxRounds))
    /\ WF_vars(BettingTimerFire(TheRoom))
    /\ WF_vars(BettingTimerCallback(TheRoom))
    /\ WF_vars(ResultTimerCallback(TheRoom))
    /\ WF_vars(TickerWake(TheRoom))
    /\ WF_vars(TickerSend(TheRoom))
    /\ WF_vars(ConsumeEvent(TheRoom))

\* --------------------------------- remote client: calls and goroutines
ClientRuns == net.fault = NoFault

\* The caller calls Connect() on a client that is not connected; it does so
\* only as long as it has not called Disconnect().
CallConnect(dialOk) ==
    /\ ClientRuns
    /\ net.calls < MaxCalls /\ net.call = NoCall
    /\ ~net.connected /\ ~net.cancelled
    /\ dialOk => net.dials < MaxDials
    /\ net' = [Connect(net, dialOk) EXCEPT !.calls = @ + 1]
    /\ UNCHANGED coordVars

CallDisconnect ==
    /\ ClientRuns
    /\ net.calls < MaxCalls /\ net.call = NoCall
    /\ net.connected
    /\ net' = [Disconnect(net) EXCEPT !.calls = @ + 1]
    /\ UNCHANGED coordVars

\* JoinRoom up to sendMessage's test; a client that is not connected
\* returns an error and changes nothing.
CallJoinRoom(rid) ==
    /\ ClientRuns
    /\ net.calls < MaxCalls /\ net.call = NoCall
    /\ net.connected /\ net.conn # 0
    /\ net' = [net EXCEPT !.calls = @ + 1,
                          !.call = [op |-> "join_room", rid |-> rid, stage |-> "write"]]
    /\ UNCHANGED coordVars

\* LeaveRoom up to sendMessage's test.
CallLeaveRoom ==
    /\ ClientRuns
    /\ net.calls < MaxCalls /\ net.call = NoCall
    /\ net.currentRoom # 0
    /\ net.connected /\ net.conn # 0
    /\ net' = [net EXCEPT !.calls = @ + 1,
                          !.call = [op |-> "leave_room", rid |-> net.currentRoom,
                                    stage |-> "write"]]
    /\ UNCHANGED coordVars

\* The caller's JoinRoom or LeaveRoom writes its message.
CallWrite ==
    /\ ClientRuns
    /\ net.call.stage = "write"
    /\ net' = [WriteMessage(net, net.call.op, net.call.rid) EXCEPT
                  !.call = IF WriteFails(net) THEN NoCall
                           ELSE [net.call EXCEPT !.stage = "set"]]
    /\ UNCHANGED coordVars

\* The caller's JoinRoom or LeaveRoom assigns currentRoom and returns.
CallSet ==
    /\ ClientRuns
    /\ net.call.stage = "set"
    /\ net' = [net EXCEPT
                  !.currentRoom = IF net.call.op = "join_room" THEN net.call.rid ELSE 0,
                  !.call = NoCall]
    /\ UNCHANGED coordVars

\* The peer or the network closes connection g.
TransportLost(g) ==
    /\ ClientRuns
    /\ g \in net.open
    /\ net' = [net EXCEPT !.open = @ \ {g}]
    /\ UNCHANGED coordVars

\* readPump's select: a cancelled context makes it return.
PumpSelect(g) ==
    /\ ClientRuns
    /\ net.pump[g] = "start"
    /\ net' = [net EXCEPT !.pump[g] = IF net.cancelled THEN "exit" ELSE "deref"]
    /\ UNCHANGED coordVars

\* readPump evaluates c.conn, without c.mu, and calls ReadMessage on it.
PumpRead(g) ==
    /\ ClientRuns
    /\ net.pump[g] = "deref"
    /\ net' = IF net.conn = 0
              THEN [net EXCEPT !.fault = "nil pointer dereference"]
              ELSE [net EXCEPT !.pump[g] = "read", !.readOn[g] = net.conn]
    /\ UNCHANGED coordVars

\* ReadMessage fails on a closed connection: readPump returns.
PumpExit(g) ==
    /\ ClientRuns
    /\ net.pump[g] = "read" /\ net.readOn[g] \notin net.open
    /\ net' = [net EXCEPT !.pump[g] = "exit"]
    /\ UNCHANGED coordVars

HandleDisconnectLocked(g) ==
    /\ ClientRuns
    /\ net.pump[g] = "exit"
    /\ net' = handleDisconnectLocked(net, g)
    /\ UNCHANGED coordVars

HandleDisconnect(g) ==
    /\ ClientRuns
    /\ net.pump[g] = "notify"
    /\ net' = handleDisconnect(net, g)
    /\ UNCHANGED coordVars

AttemptBegin ==
    /\ ClientRuns
    /\ net.atStart > 0
    /\ net' = attemptReconnectBegin(net)
    /\ UNCHANGED coordVars

AttemptDial(dialOk) ==
    /\ ClientRuns
    /\ net.atDial > 0
    /\ (dialOk /\ ~net.connected) => net.dials < MaxDials
    /\ net' = attemptReconnectDial(net, dialOk)
    /\ UNCHANGED coordVars

\* The model has one rejoining JoinRoom inside sendMessage at a time.
AttemptRejoin ==
    /\ ClientRuns
    /\ net.atRejoin > 0 /\ net.rejoin = 0
    /\ net' = attemptReconnectRejoin(net)
    /\ UNCHANGED coordVars

RejoinWrite ==
    /\ ClientRuns
    /\ net.rejoin # 0
    /\ net' = rejoinWrite(net)
    /\ UNCHANGED coordVars

\* The reader of GetErrorChannel() takes the oldest error.
ConsumeError ==
    /\ ClientRuns
    /\ Len(net.errorChan) > 0
    /\ net' = [net EXCEPT !.errorChan = Tail(@)]
    /\ UNCHANGED coordVars

\* ------------------------------------ remote-client specification
\* One NetworkClient with a retry budget of 0..CfgMaxReconnects, its caller,
\* its goroutines and a network that may refuse a dial or drop a connection.
InitClient ==
    /\ rooms = [o \in RoomObjs |-> NewGameRoom(DefaultRoomConfig)]
    /\ srv = NewServer
    /\ clients = [c \in ClientIds |-> NewClient]
    /\ relay = [o \in RoomObjs |-> NewRelay]
    /\ net \in {NewNetworkClient(n) : n \in 0..CfgMaxReconnects}
    /\ eng = NewEngine

NextClient ==
    \/ \E dialOk \in BOOLEAN : CallConnect(dialOk)
    \/ CallDisconnect
    \/ \E rid \in CallRoomIds : CallJoinRoom(rid)
    \/ CallLeaveRoom
    \/ CallWrite
    \/ CallSet
    \/ \E g \in Dials : TransportLost(g)
    \/ \E g \in Dials : PumpSelect(g)
    \/ \E g \in Dials : PumpRead(g)
    \/ \E g \in Dials : PumpExit(g)
    \/ \E g \in Dials : HandleDisconnectLocked(g)
    \/ \E g \in Dials : HandleDisconnect(g)
    \/ AttemptBegin
    \/ \E dialOk \in BOOLEAN : AttemptDial(dialOk)
    \/ AttemptRejoin
    \/ RejoinWrite
    \/ ConsumeError

SpecClient == InitClient /\ [][NextClient]_vars

\* ------------------------------------------ single-player engine: calls
\* What a caller passes as the amount: below MinBet to above MaxBet.
EngineAmounts == 0..(EngMaxBet + 1)

CallEnginePlaceBet(playerID, amount, choice, io) ==
    /\ eng.calls < MaxEngineCalls
    /\ eng' = [EnginePlaceBet(eng, playerID, amount, choice, io) EXCEPT !.calls = @ + 1]
    /\ UNCHANGED multiplayerVars

CallEngineFlipCoin(playerID, io) ==
    /\ eng.calls < MaxEngineCalls
    /\ eng' = [EngineFlipCoin(eng, playerID, io) EXCEPT !.calls = @ + 1]
    /\ UNCHANGED multiplayerVars

CallEngineCancelCurrentBet(playerID, io) ==
    /\ eng.calls < MaxEngineCalls
    /\ eng' = [EngineCancelCurrentBet(eng, playerID, io) EXCEPT !.calls = @ + 1]
    /\ UNCHANGED multiplayerVars

\* ------------------------------------ single-player specification
\* One Engine over an empty repository; its callers pass any amount and any
\* string as the side, and the repository and the random generator may fail
\* in any call.
InitEngine ==
    /\ rooms = [o \in RoomObjs |-> NewGameRoom(DefaultRoomConfig)]
    /\ srv = NewServer
    /\ clients = [c \in ClientIds |-> NewClient]
    /\ relay = [o \in RoomObjs |-> NewRelay]
    /\ net = NewNetworkClient(0)
    /\ eng = NewEngine

NextEngine ==
    \/ \E p \in EnginePlayerIds, amount \in EngineAmounts, choice \in Choices, io \in EngineIO :
            CallEnginePlaceBet(p, amount, choice, io)
    \/ \E p \in EnginePlayerIds, io \in EngineIO : CallEngineFlipCoin(p, io)
    \/ \E p \in EnginePlayerIds, io \in EngineIO : CallEngineCancelCurrentBet(p, io)

SpecEngine == InitEngine /\ [][NextEngine]_vars

\* ------------------------------------------------ server: operations
Panic(s, cond, what) == IF cond THEN [s EXCEPT !.fault = what] ELSE s

\* s.mu can be taken for reading: performCleanup is not inside its loop.
CanRLock == srv.scan = {} /\ srv.reaping = 0

\* s.mu can be taken exclusively: nor is a relay inside its read-locked
\* loop.  (Every other exclusive section and pingClients are single steps
\* here.)
CanLock == CanRLock /\ \A o \in RoomObjs : ~relay[o].inLoop

\* select { case c.send <- data: default: } on an open channel.
TrySend(cl, data) ==
    IF Len(cl.send) < SendCap THEN [cl EXCEPT !.send = Append(@, data)] ELSE cl

\* Client.sendError, after which readPump reads on: the select panics when
\* c.send is closed.
ReplyError(c, cl, code) ==
    /\ clients' = [clients EXCEPT ![c] = IF cl.sendClosed THEN cl ELSE TrySend(cl, code)]
    /\ srv' = Panic([srv EXCEPT !.msgs = @ + 1], cl.sendClosed, "send on closed channel")

\* What a connection can deliver.  ok = FALSE: the data field does not
\* decode.  Joins carry the balance JoinBalance.
NoMsg == [type |-> None, ok |-> TRUE, rid |-> 0, pid |-> 0, amount |-> 0, choice |-> None]
ClientMsgs ==
    {[NoMsg EXCEPT !.type = t] : t \in {"junk", "unknown", "leave_room"}}
    \cup {[NoMsg EXCEPT !.type = "join_room", !.ok = FALSE]}
    \cup {[NoMsg EXCEPT !.type = "join_room", !.rid = rid, !.pid = pid] :
            rid \in RoomIds, pid \in PlayerIds}
    \cup {[NoMsg EXCEPT !.type = "bet_placed", !.ok = FALSE]}
    \cup {[NoMsg EXCEPT !.type = "bet_placed", !.amount = a, !.choice = "heads"] :
            a \in 0..1}

\* readPump is in ReadMessage and a message arrives.
CanRead(c) ==
    /\ ~Faulted
    /\ clients[c].rpc = "read" /\ clients[c].conn = "open"
    /\ srv.msgs < MaxMsgs

\* handleWebSocket hands the client to the run loop, whose registerClient
\* enters it in s.clients, and starts the pumps.
Accept(c) ==
    /\ ~Faulted
    /\ clients[c].conn = "new"
    /\ CanLock
    /\ clients' = [clients EXCEPT ![c].conn = "open", ![c].reg = 0,
                                  ![c].rpc = "read", ![c].writer = TRUE]
    /\ UNCHANGED <<rooms, srv, relay>>
    /\ UNCHANGED <<net, eng>>

\* readPump reads a message that handleMessage answers with an error at
\* once or ignores.
ReceivePlain(c, m) ==
    /\ CanRead(c)
    /\ LET cl == clients[c] IN
       \/ /\ m.type = "junk"
          /\ ReplyError(c, cl, "invalid_message")
       \/ /\ m.type = "unknown"
          /\ srv' = [srv EXCEPT !.msgs = @ + 1]
          /\ UNCHANGED clients
       \/ /\ m.type = "join_room" /\ ~m.ok
          /\ ReplyError(c, cl, "invalid_data")
       \/ /\ m.type \in {"leave_room", "bet_placed"} /\ cl.room = 0
          /\ ReplyError(c, cl, "not_in_room")
       \/ /\ m.type = "bet_placed" /\ cl.room # 0 /\ ~m.ok
          /\ ReplyError(c, cl, "invalid_bet_data")
    /\ UNCHANGED <<rooms, relay>>
    /\ UNCHANGED <<net, eng>>

\* handleJoinRoom up to GetRoom.
ReceiveJoin(c, m) ==
    /\ CanRead(c)
    /\ CanRLock
    /\ m.type = "join_room" /\ m.ok
    /\ clients' = [clients EXCEPT
            ![c].jrid = m.rid, ![c].jpid = m.pid,
            ![c].jroom = srv.table[m.rid],
            ![c].rpc = IF srv.table[m.rid] # 0 THEN "joinAdd" ELSE "joinCreate"]
    /\ srv' = [srv EXCEPT !.msgs = @ + 1]
    /\ UNCHANGED <<rooms, relay>>
    /\ UNCHANGED <<net, eng>>

\* The join is over: readPump is back in ReadMessage.
JoinDone(cl) == [cl EXCEPT !.rpc = "read", !.jroom = 0, !.jrid = 0, !.jpid = 0]

\* handleJoinRoom: CreateRoom.  MaxRooms is 100 and is not reached here.
JoinCreate(c) ==
    /\ ~Faulted
    /\ clients[c].rpc = "joinCreate"
    /\ CanLock
    /\ LET cl == clients[c] IN
       IF srv.table[cl.jrid] # 0
       THEN /\ clients' = [clients EXCEPT ![c] =
                    IF cl.sendClosed THEN JoinDone(cl)
                    ELSE TrySend(JoinDone(cl), "room_creation_failed")]
            /\ srv' = Panic(srv, cl.sendClosed, "send on closed channel")
       ELSE /\ srv.made < MaxRoomObjs
            /\ srv' = [srv EXCEPT !.made = @ + 1, !.table[cl.jrid] = srv.made + 1]
            /\ clients' = [clients EXCEPT ![c].jroom = srv.made + 1,
                                          ![c].rpc = "joinAdd"]
    /\ UNCHANGED <<rooms, relay>>
    /\ UNCHANGED <<net, eng>>

\* handleJoinRoom: c.playerID is set, then AddPlayer.
JoinAdd(c) ==
    /\ ~Faulted
    /\ clients[c].rpc = "joinAdd"
    /\ LET cl == [clients[c] EXCEPT !.playerID = clients[c].jpid]
           o == cl.jroom
       IN  /\ TaskBudget(AddPlayer(rooms[o], cl.jpid, JoinBalance))
           /\ SetRoom(o, AddPlayer(rooms[o], cl.jpid, JoinBalance))
           /\ IF AddPlayerErr(rooms[o], cl.jpid, JoinBalance) # ErrNone
              THEN /\ clients' = [clients EXCEPT ![c] =
                           IF cl.sendClosed THEN JoinDone(cl)
                           ELSE TrySend(JoinDone(cl), "join_failed")]
                   /\ srv' = Panic(srv, cl.sendClosed, "send on closed channel")
              ELSE /\ clients' = [clients EXCEPT ![c] = [cl EXCEPT !.rpc = "joinMap"]]
                   /\ UNCHANGED srv
    /\ UNCHANGED relay
    /\ UNCHANGED <<net, eng>>

\* handleJoinRoom: the client-room mapping.
JoinMap(c) ==
    /\ ~Faulted
    /\ clients[c].rpc = "joinMap"
    /\ CanLock
    /\ clients' = [clients EXCEPT ![c] =
            JoinDone([clients[c] EXCEPT !.reg = clients[c].jroom,
                                        !.room = clients[c].jroom])]
    /\ UNCHANGED <<rooms, srv, relay>>
    /\ UNCHANGED <<net, eng>>

\* handleLeaveRoom with c.room set: RemovePlayer, its error ignored.
ReceiveLeave(c, m) ==
    /\ CanRead(c)
    /\ m.type = "leave_room" /\ clients[c].room # 0
    /\ SetRoom(clients[c].room, RemovePlayer(rooms[clients[c].room], clients[c].playerID))
    /\ clients' = [clients EXCEPT ![c].rpc = "leaveMap"]
    /\ srv' = [srv EXCEPT !.msgs = @ + 1]
    /\ UNCHANGED relay
    /\ UNCHANGED <<net, eng>>

\* handleLeaveRoom: the client-room mapping.
LeaveMap(c) ==
    /\ ~Faulted
    /\ clients[c].rpc = "leaveMap"
    /\ CanLock
    /\ clients' = [clients EXCEPT ![c].reg = 0, ![c].room = 0, ![c].rpc = "read"]
    /\ UNCHANGED <<rooms, srv, relay>>
    /\ UNCHANGED <<net, eng>>

\* handlePlaceBet with c.room set and data that decodes.
ReceiveBet(c, m) ==
    /\ CanRead(c)
    /\ m.type = "bet_placed" /\ m.ok /\ clients[c].room # 0
    /\ LET cl == clients[c]
           o == cl.room
       IN  /\ SetRoom(o, PlaceBet(rooms[o], cl.playerID, m.amount, m.choice))
           /\ IF PlaceBetErr(rooms[o], cl.playerID, m.amount, m.choice) # ErrNone
              THEN ReplyError(c, cl, "bet_failed")
              ELSE /\ srv' = [srv EXCEPT !.msgs = @ + 1]
                   /\ UNCHANGED clients
    /\ UNCHANGED relay
    /\ UNCHANGED <<net, eng>>

\* readPump: ReadMessage fails (the peer went away, the read deadline
\* passed, or the connection was closed on this side); the deferred function
\* hands the client to the run loop and closes the connection; the run loop's
\* unregisterClient.
ReadFail(c) ==
    /\ ~Faulted
    /\ clients[c].rpc = "read"
    /\ CanLock
    /\ LET cl == clients[c] IN
       IF cl.reg = -1
       THEN /\ clients' = [clients EXCEPT ![c].rpc = "done", ![c].conn = "closed"]
            /\ UNCHANGED <<rooms, srv>>
       ELSE /\ IF cl.reg # 0 /\ cl.playerID # 0
               THEN SetRoom(cl.reg, RemovePlayer(rooms[cl.reg], cl.playerID))
               ELSE UNCHANGED rooms
            /\ srv' = Panic(srv, cl.sendClosed, "close of closed channel")
            /\ clients' = [clients EXCEPT ![c].rpc = "done", ![c].conn = "closed",
                                          ![c].reg = -1, ![c].sendClosed = TRUE]
    /\ UNCHANGED relay
    /\ UNCHANGED <<net, eng>>

\* writePump takes a message from c.send and writes it; a failed write ends
\* the pump, which closes the connection.
WritePop(c) ==
    /\ ~Faulted
    /\ clients[c].writer
    /\ Len(clients[c].send) > 0
    /\ clients' = [clients EXCEPT ![c].send = Tail(@),
                                  ![c].writer = (clients[c].conn = "open")]
    /\ UNCHANGED <<rooms, srv, relay>>
    /\ UNCHANGED <<net, eng>>

\* writePump finds c.send closed and drained: it returns and closes the
\* connection.
WriteClosed(c) ==
    /\ ~Faulted
    /\ clients[c].writer
    /\ clients[c].sendClosed /\ Len(clients[c].send) = 0
    /\ clients' = [clients EXCEPT ![c].writer = FALSE, ![c].conn = "closed"]
    /\ UNCHANGED <<rooms, srv, relay>>
    /\ UNCHANGED <<net, eng>>

\* handleRoomEvents receives the next event of its room; broadcastToRoom
\* takes the read lock and starts ranging over s.clients.
RelayBegin(o) ==
    /\ ~Faulted
    /\ CanRLock
    /\ o <= srv.made
    /\ ~relay[o].inLoop
    /\ Len(rooms[o].eventChan) > 0
    /\ relay' = [relay EXCEPT ![o] =
            [inLoop |-> TRUE, msg |-> Head(rooms[o].eventChan),
             todo |-> {c \in ClientIds : clients[c].reg = o}, closing |-> 0]]
    /\ SetRoom(o, [rooms[o] EXCEPT !.eventChan = Tail(@)])
    /\ UNCHANGED <<srv, clients>>
    /\ UNCHANGED <<net, eng>>

\* One iteration of broadcastToRoom's loop up to the select.  An entry that
\* was deleted since the loop began is passed over.
RelayVisit(o, c) ==
    /\ ~Faulted
    /\ relay[o].inLoop /\ relay[o].closing = 0
    /\ c \in relay[o].todo
    /\ LET cl == clients[c] IN
       IF cl.reg # o
       THEN /\ relay' = [relay EXCEPT ![o].todo = @ \ {c}]
            /\ UNCHANGED <<srv, clients>>
       ELSE IF cl.sendClosed
       THEN /\ srv' = Panic(srv, TRUE, "send on closed channel")
            /\ UNCHANGED <<relay, clients>>
       ELSE IF Len(cl.send) < SendCap
       THEN /\ clients' = [clients EXCEPT ![c] = TrySend(cl, relay[o].msg)]
            /\ relay' = [relay EXCEPT ![o].todo = @ \ {c}]
            /\ UNCHANGED srv
       ELSE /\ relay' = [relay EXCEPT ![o].closing = c]
            /\ UNCHANGED <<srv, clients>>
    /\ UNCHANGED rooms
    /\ UNCHANGED <<net, eng>>

\* The default branch: close(client.send); delete(s.clients, client).  The
\* delete is a map write under the read lock: while another relay is inside
\* its loop the runtime may or may not detect it and abort.
RelayClose(o) ==
    /\ ~Faulted
    /\ relay[o].inLoop /\ relay[o].closing # 0
    /\ LET c == relay[o].closing
           raced == \E q \in RoomObjs \ {o} : relay[q].inLoop
       IN  /\ clients' = [clients EXCEPT ![c].sendClosed = TRUE, ![c].reg = -1]
           /\ relay' = [relay EXCEPT ![o].closing = 0, ![o].todo = @ \ {c}]
           /\ \/ srv' = Panic(srv, clients[c].sendClosed, "close of closed channel")
              \/ /\ raced
                 /\ srv' = Panic(srv, TRUE, "concurrent map writes")
    /\ UNCHANGED rooms
    /\ UNCHANGED <<net, eng>>

\* The loop is over: the read lock is released.
RelayEnd(o) ==
    /\ ~Faulted
    /\ relay[o].inLoop /\ relay[o].closing = 0 /\ relay[o].todo = {}
    /\ relay' = [relay EXCEPT ![o] = NewRelay]
    /\ UNCHANGED <<rooms, srv, clients>>
    /\ UNCHANGED <<net, eng>>

\* The run loop's ticker fires: pingClients, whole.  It holds the read
\* lock, so relays may be inside their loops; its deletes are map writes
\* that race with them.
PingClients ==
    /\ ~Faulted
    /\ CanRLock
    /\ LET regd == {c \in ClientIds : clients[c].reg >= 0}
           full == {c \in regd : Len(clients[c].send) >= SendCap}
           raced == full # {} /\ \E o \in RoomObjs : relay[o].inLoop
       IN  /\ clients' = [c \in ClientIds |->
                  IF c \notin regd \/ clients[c].sendClosed THEN clients[c]
                  ELSE IF c \in full
                       THEN [clients[c] EXCEPT !.sendClosed = TRUE, !.reg = -1]
                       ELSE TrySend(clients[c], "ping")]
           /\ \/ srv' = Panic(srv, \E c \in regd : clients[c].sendClosed,
                              "send on closed channel")
              \/ /\ raced
                 /\ srv' = Panic(srv, TRUE, "concurrent map writes")
    /\ UNCHANGED <<rooms, relay>>
    /\ UNCHANGED <<net, eng>>

\* The cleanup loop's ticker fires: performCleanup, run with no room
\* operation between its GetPlayers and its Stop of a room.
PerformCleanup ==
    /\ ~Faulted
    /\ CanLock
    /\ LET empty == {rid \in RoomIds : /\ srv.table[rid] # 0
                                       /\ NumPlayersIn(rooms[srv.table[rid]]) = 0}
           reaped == {srv.table[rid] : rid \in empty}
       IN  /\ rooms' = [o \in RoomObjs |->
                          IF o \in reaped THEN RoomStop(rooms[o]) ELSE rooms[o]]
           /\ srv' = [srv EXCEPT !.table =
                          [rid \in RoomIds |-> IF rid \in empty THEN 0 ELSE @[rid]]]
    /\ UNCHANGED <<clients, relay>>
    /\ UNCHANGED <<net, eng>>

\* performCleanup statement by statement.  It holds s.mu from entry to
\* return, but a room's lock only inside GetPlayers and inside Stop, so a
\* caller that holds the room's pointer can run a room method in between.
\* performCleanup takes s.mu and starts ranging over s.rooms.
CleanupBegin ==
    /\ ~Faulted
    /\ CanLock
    /\ \E rid \in RoomIds : srv.table[rid] # 0
    /\ srv' = [srv EXCEPT !.scan = {rid \in RoomIds : srv.table[rid] # 0}]
    /\ UNCHANGED <<rooms, clients, relay>>
    /\ UNCHANGED <<net, eng>>

\* One iteration up to the test of len(players).
CleanupVisit(rid) ==
    /\ ~Faulted
    /\ rid \in srv.scan /\ srv.reaping = 0
    /\ srv' = [srv EXCEPT !.scan = @ \ {rid},
                          !.reaping = IF NumPlayersIn(rooms[srv.table[rid]]) = 0
                                      THEN rid ELSE 0]
    /\ UNCHANGED <<rooms, clients, relay>>
    /\ UNCHANGED <<net, eng>>

\* room.Stop() and delete(s.rooms, roomID) of the room found empty.
CleanupReap ==
    /\ ~Faulted
    /\ srv.reaping # 0
    /\ SetRoom(srv.table[srv.reaping], RoomStop(rooms[srv.table[srv.reaping]]))
    /\ srv' = [srv EXCEPT !.table[srv.reaping] = 0, !.reaping = 0]
    /\ UNCHANGED <<clients, relay>>
    /\ UNCHANGED <<net, eng>>

\* Server.Stop: cancel, then under the lock Stop every room of s.rooms and
\* close the connection of every client of s.clients.
ServerStop ==
    /\ ~Faulted
    /\ srv.stopCalls < MaxStops
    /\ CanLock
    /\ LET live == {srv.table[rid] : rid \in RoomIds} \ {0} IN
       rooms' = [o \in RoomObjs |-> IF o \in live THEN RoomStop(rooms[o]) ELSE rooms[o]]
    /\ clients' = [c \in ClientIds |->
                      IF clients[c].reg >= 0
                      THEN [clients[c] EXCEPT !.conn = "closed"]
                      ELSE clients[c]]
    /\ srv' = [srv EXCEPT !.stopCalls = @ + 1]
    /\ UNCHANGED relay
    /\ UNCHANGED <<net, eng>>

\* ------------------------------------------ server-level specification
\* A started Server with no rooms and no clients; rooms are constructed by
\* joins with DefaultRoomConfig.  The rooms' timers and spawned goroutines
\* are not scheduled in this specification (the game cycle is Spec's): a
\* room keeps the roster and the queue that joins, leaves and bets give it.
InitServer ==
    /\ rooms = [o \in RoomObjs |-> NewGameRoom(DefaultRoomConfig)]
    /\ srv = NewServer
    /\ clients = [c \in ClientIds |-> NewClient]
    /\ relay = [o \in RoomObjs |-> NewRelay]
    /\ net = NewNetworkClient(0)
    /\ eng = NewEngine

NextServer ==
    \/ \E c \in ClientIds : Accept(c)
    \/ \E c \in ClientIds, m \in ClientMsgs : ReceivePlain(c, m)
    \/ \E c \in ClientIds, m \in ClientMsgs : ReceiveJoin(c, m)
    \/ \E c \in ClientIds : JoinCreate(c)
    \/ \E c \in ClientIds : JoinAdd(c)
    \/ \E c \in ClientIds : JoinMap(c)
    \/ \E c \in ClientIds, m \in ClientMsgs : ReceiveLeave(c, m)
    \/ \E c \in ClientIds : LeaveMap(c)
    \/ \E c \in ClientIds, m \in ClientMsgs : ReceiveBet(c, m)
    \/ \E c \in ClientIds : ReadFail(c)
    \/ \E c \in ClientIds : WritePop(c)
    \/ \E c \in ClientIds : WriteClosed(c)
    \/ \E o \in RoomObjs : RelayBegin(o)
    \/ \E o \in RoomObjs, c \in ClientIds : RelayVisit(o, c)
    \/ \E o \in RoomObjs : RelayClose(o)
    \/ \E o \in RoomObjs : RelayEnd(o)
    \/ PingClients
    \/ PerformCleanup
    \/ ServerStop

SpecServer == InitServer /\ [][NextServer]_vars

\* A server whose connections name one room id more than RoomIds holds,
\* each connection joining under a player id of its own (its number).
WideRoomIds == 1..(NumRoomIds + 1)

InitRejoin ==
    /\ rooms = [o \in RoomObjs |-> NewGameRoom(DefaultRoomConfig)]
    /\ srv = [NewServer EXCEPT !.table = [rid \in WideRoomIds |-> 0]]
    /\ clients = [c \in ClientIds |-> NewClient]
    /\ relay = [o \in RoomObjs |-> NewRelay]
    /\ net = NewNetworkClient(0)
    /\ eng = NewEngine

NextRejoin ==
    \/ \E c \in ClientIds : Accept(c)
    \/ \E c \in ClientIds, rid \in WideRoomIds :
          ReceiveJoin(c, [NoMsg EXCEPT !.type = "join_room", !.rid = rid, !.pid = c])
    \/ \E c \in ClientIds : JoinCreate(c)
    \/ \E c \in ClientIds : JoinAdd(c)
    \/ \E c \in ClientIds : JoinMap(c)
    \/ \E c \in ClientIds :
          ReceiveLeave(c, [NoMsg EXCEPT !.type = "leave_room"])
    \/ \E c \in ClientIds : LeaveMap(c)

SpecRejoin == InitRejoin /\ [][NextRejoin]_vars

\* Connections that join and leave while the cleanup loop runs, with
\* performCleanup taken statement by statement.
NextReap ==
    \/ \E c \in ClientIds : Accept(c)
    \/ \E c \in ClientIds, m \in ClientMsgs : ReceiveJoin(c, m)
    \/ \E c \in ClientIds : JoinCreate(c)
    \/ \E c \in ClientIds : JoinAdd(c)
    \/ \E c \in ClientIds : JoinMap(c)
    \/ \E c \in ClientIds, m \in ClientMsgs : ReceiveLeave(c, m)
    \/ \E c \in ClientIds : LeaveMap(c)
    \/ CleanupBegin
    \/ \E rid \in RoomIds : CleanupVisit(rid)
    \/ CleanupReap

SpecReap == InitServer /\ [][NextReap]_vars

\* Connections that join once, each under a player id of its own (its
\* number), send messages the server answers with an error, and go away,
\* while the run loop pings them.  Handlers that have started run on, a
\* writePump whose buffer was closed returns, and a readPump whose
\* connection is closed returns.
JoinOnce(c, rid) ==
    /\ clients[c].room = 0
    /\ ReceiveJoin(c, [NoMsg EXCEPT !.type = "join_room", !.rid = rid, !.pid = c])

NextClose ==
    \/ \E c \in ClientIds : Accept(c)
    \/ \E c \in ClientIds, m \in ClientMsgs : ReceivePlain(c, m)
    \/ \E c \in ClientIds, rid \in RoomIds : JoinOnce(c, rid)
    \/ \E c \in ClientIds : JoinCreate(c)
    \/ \E c \in ClientIds : JoinAdd(c)
    \/ \E c \in ClientIds : JoinMap(c)
    \/ \E c \in ClientIds : ReadFail(c)
    \/ \E c \in ClientIds : WritePop(c)
    \/ \E c \in ClientIds : WriteClosed(c)
    \/ PingClients

FairSpecClose ==
    /\ InitServer /\ [][NextClose]_vars
    /\ \A c \in ClientIds :
          /\ WF_vars(JoinCreate(c))
          /\ WF_vars(JoinAdd(c))
          /\ WF_vars(JoinMap(c))
          /\ WF_vars(WritePop(c))
          /\ WF_vars(WriteClosed(c))
          /\ WF_vars(clients[c].conn = "closed" /\ ReadFail(c))

\* ------------------------------------------------------------- claims
\* The amount of p's bet that the room still holds: its entry in the ledger
\* of a round that has not been resolved.
HeldAmount(rm, p) ==
    IF rm.gameState \in {StateBetting, StatePaused} /\ p \in DOMAIN Ledger(rm)
    THEN Ledger(rm)[p].Amount
    ELSE 0

\* C1: for every player in the roster, balance plus the bet amount held in
\* the current round's ledger equals the balance supplied at its most recent
\* join plus the sum, over the rounds resolved since, of payout minus bet.
C1_FundsConservation ==
    \A o \in RoomObjs : \A p \in DOMAIN rooms[o].players :
        rooms[o].players[p].Balance + HeldAmount(rooms[o], p)
            = rooms[o].players[p].JoinBase

\* C2 as claimed: the round is present iff the phase is Betting, Revealing
\* or Result (so it is absent in Waiting and in Paused).
C2_RoundIffActivePhase ==
    \A o \in RoomObjs :
        HasRound(rooms[o]) <=>
            rooms[o].gameState \in {StateBetting, StateRevealing, StateResult}

\* C2 as amended: the round is present iff the phase is Betting, Revealing,
\* Result or Paused; a paused room keeps its round and ledger.
C2_RoundIffNotWaiting ==
    \A o \in RoomObjs :
        /\ HasRound(rooms[o]) <=>
              rooms[o].gameState \in
                  {StateBetting, StateRevealing, StateResult, StatePaused}
        /\ rooms[o].gameState = StatePaused => HasRound(rooms[o])

\* A paused room that still has its round and a bet in its ledger.
C2_Witness ==
    \E o \in RoomObjs :
        /\ rooms[o].gameState = StatePaused
        /\ HasRound(rooms[o])
        /\ DOMAIN rooms[o].currentRound.Bets # {}

\* C3: the phase is Waiting iff there is no current round.
C3_WaitingIffNoRound ==
    \A o \in RoomObjs :
        (rooms[o].gameState = StateWaiting) <=> ~HasRound(rooms[o])

\* A room back in Waiting without a round after its second round ended, and a
\* room that was paused: both sides of the equivalence occur.
C3_Witness ==
    \E o \in RoomObjs :
        /\ rooms[o].totalRounds = 2
        /\ rooms[o].gameState = StateWaiting
        /\ ~HasRound(rooms[o])
        /\ rooms[o].resultPending = 0

\* C4: a room that is Paused later is in Waiting (unless it is stopped,
\* which ends any room).
C4_PausedLeadsToWaiting ==
    \A o \in RoomObjs :
        (rooms[o].gameState = StatePaused)
            ~> (rooms[o].gameState = StateWaiting \/ rooms[o].stopped)

\* What a timer or a scheduled task of a room may not touch once the room is
\* stopped: phase, round, roster and balances, event queue; nor may it panic.
RoomCore(rm) ==
    <<rm.gameState, rm.currentRound, rm.players, rm.eventChan, rm.fault>>

\* C5: once a room is stopped, no step of its timers, scheduled tasks or
\* countdown changes its phase, round or balances or enqueues an event.
C5_NoTimerEffectAfterStop ==
    [][\A o \in RoomObjs :
          (rooms[o].stopped /\ RoomTimers(o, MaxRounds)) =>
              RoomCore(rooms'[o]) = RoomCore(rooms[o])]_vars

\* C9: when the result timer expires in a running room the round is cleared,
\* the phase becomes Waiting and, iff the roster is at least the minimum, a
\* restart is scheduled; when that restart runs with the roster still at
\* least the minimum and the phase still Waiting, a new round with an empty
\* ledger enters Betting with its timer armed.
C9_SelfPerpetuating ==
    [][\A o \in RoomObjs :
          /\ (ResultTimerCallback(o) /\ ~rooms[o].stopped) =>
                /\ rooms'[o].gameState = StateWaiting
                /\ ~HasRound(rooms'[o])
                /\ rooms'[o].graceTasks = rooms[o].graceTasks +
                      (IF NumPlayersIn(rooms[o]) >= rooms[o].config.MinPlayers
                       THEN 1 ELSE 0)
          /\ (GraceStart(o, MaxRounds) /\ ~rooms[o].stopped
                /\ NumPlayersIn(rooms[o]) >= rooms[o].config.MinPlayers
                /\ rooms[o].gameState = StateWaiting) =>
                /\ rooms'[o].gameState = StateBetting
                /\ rooms'[o].currentRound = NewGameRound(rooms[o].totalRounds + 1)
                /\ rooms'[o].totalRounds = rooms[o].totalRounds + 1
                /\ rooms'[o].timerArmed]_vars

\* The result timer of round 1 has expired with the roster at the minimum:
\* the room is in Waiting and its restart is scheduled.
C9_Witness ==
    \E o \in RoomObjs :
        /\ rooms[o].graceTasks > 0
        /\ rooms[o].gameState = StateWaiting
        /\ rooms[o].totalRounds = 1
        /\ NumPlayersIn(rooms[o]) >= rooms[o].config.MinPlayers

\* C10: a PlaceBet by a player who already has a bet in the current round
\* fails and changes nothing, with DuplicateBet while the phase is Betting;
\* and a bet in the ledger is never replaced while its round lasts.
C10_OneBetPerPlayer ==
    /\ [](\A o \in RoomObjs : \A p \in DOMAIN Ledger(rooms[o]) :
            \A a \in BetAmounts, c \in Sides :
                /\ PlaceBet(rooms[o], p, a, c) = rooms[o]
                /\ rooms[o].gameState = StateBetting =>
                      PlaceBetErr(rooms[o], p, a, c) = ErrPlayerAlreadyBet)
    /\ [][\A o \in RoomObjs : \A p \in DOMAIN Ledger(rooms[o]) :
            (rooms'[o].currentRound.ID = rooms[o].currentRound.ID
                /\ p \in DOMAIN Ledger(rooms'[o])) =>
                    Ledger(rooms'[o])[p] = Ledger(rooms[o])[p]]_vars

\* Betting is open and a player holds a bet: a second PlaceBet is a duplicate.
C10_Witness ==
    \E o \in RoomObjs : \E p \in DOMAIN Ledger(rooms[o]) :
        /\ rooms[o].gameState = StateBetting
        /\ p \in DOMAIN rooms[o].players
        /\ rooms[o].players[p].Balance >= rooms[o].config.MinBet

FatalFaults == {"send on closed channel", "close of closed channel"}

\* C6: no interleaving of the server's goroutines produces a send on, or a
\* second close of, a closed room event queue or connection outbound buffer.
C6_NoFatalFault ==
    /\ srv.fault \notin FatalFaults
    /\ \A o \in RoomObjs : rooms[o].fault \notin FatalFaults

\* C7: a call of Server.Stop after the first one completes without fault.
C7_StopIdempotent ==
    [][(ServerStop /\ srv.stopCalls >= 1) =>
            /\ srv'.fault = NoFault
            /\ \A o \in RoomObjs : rooms'[o].fault = NoFault]_vars

\* C8: when the relay's select finds a member's outbound buffer full, the
\* relay closes that buffer and removes that client from the registry,
\* touching no other client and without fault; and a member whose buffer has
\* space is handed the event.
C8_RelayBackpressure ==
    [][\A o \in RoomObjs :
        /\ RelayClose(o) =>
              LET c == relay[o].closing IN
              /\ srv'.fault = NoFault
              /\ clients'[c].sendClosed /\ clients'[c].reg = -1
              /\ \A d \in ClientIds \ {c} : clients'[d] = clients[d]
        /\ \A c \in ClientIds :
              (RelayVisit(o, c) /\ clients[c].reg = o
                                /\ Len(clients[c].send) < SendCap) =>
                  /\ srv'.fault = NoFault
                  /\ clients'[c].send = Append(clients[c].send, relay[o].msg)]_vars

\* C11: in every reachable state, a PlaceBet that succeeds lowers the
\* player's balance by exactly the amount, records the bet in the round's
\* ledger and leaves every other player's record and ledger entry as they
\* were.
C11_BetDebitsBalance ==
    \A o \in RoomObjs, p \in PlayerIds, a \in BetAmounts, c \in Sides :
        PlaceBetErr(rooms[o], p, a, c) = ErrNone =>
            LET after == PlaceBet(rooms[o], p, a, c) IN
            /\ rooms[o].players[p].Balance = after.players[p].Balance + a
            /\ Ledger(after) = MapPut(Ledger(rooms[o]), p, [Amount |-> a, Choice |-> c])
            /\ DOMAIN after.players = DOMAIN rooms[o].players
            /\ \A q \in DOMAIN rooms[o].players \ {p} :
                  after.players[q] = rooms[o].players[q]

\* One player's bet is held (debited from the balance it joined with) while
\* another player of the roster has placed none.
C11_Witness ==
    \E o \in RoomObjs : \E p \in DOMAIN Ledger(rooms[o]) :
        /\ rooms[o].gameState = StateBetting
        /\ p \in DOMAIN rooms[o].players
        /\ rooms[o].players[p].Balance + Ledger(rooms[o])[p].Amount = JoinBalance
        /\ \E q \in DOMAIN rooms[o].players \ {p} :
              /\ q \notin DOMAIN Ledger(rooms[o])
              /\ rooms[o].players[q].Balance = JoinBalance

\* The error the PlaceBet contract names for a call: the first that applies
\* of InvalidPhase, PlayerNotFound, DuplicateBet, InvalidAmount,
\* InsufficientBalance.
ContractBetErr(rm, p, a) ==
    IF rm.gameState # StateBetting THEN ErrInvalidGamePhase
    ELSE IF p \notin DOMAIN rm.players THEN ErrPlayerNotFound
    ELSE IF p \in DOMAIN Ledger(rm) THEN ErrPlayerAlreadyBet
    ELSE IF a < rm.config.MinBet \/ a > rm.config.MaxBet THEN ErrInvalidBetAmount
    ELSE IF rm.players[p].Balance < a THEN ErrInsufficientBalance
    ELSE ErrNone

\* C12: in every reachable state every PlaceBet call answers with the first
\* error of the contract's order that applies, succeeds iff none applies, and
\* a failing call changes nothing.
C12_BetErrorOrder ==
    \A o \in RoomObjs, p \in PlayerIds, a \in BetAmounts, c \in Sides :
        /\ PlaceBetErr(rooms[o], p, a, c) = ContractBetErr(rooms[o], p, a)
        /\ PlaceBetErr(rooms[o], p, a, c) # ErrNone =>
              PlaceBet(rooms[o], p, a, c) = rooms[o]

\* Betting is open and a player who holds a bet has less than the minimum
\* bet left: DuplicateBet, InvalidAmount (amount 0) and InsufficientBalance
\* all apply to its next call.
C12_Witness ==
    \E o \in RoomObjs : \E p \in DOMAIN Ledger(rooms[o]) :
        /\ rooms[o].gameState = StateBetting
        /\ p \in DOMAIN rooms[o].players
        /\ rooms[o].players[p].Balance < rooms[o].config.MinBet

\* C13: a PlaceBet whose side is neither heads nor tails is rejected and
\* changes nothing, and every bet in a ledger has side heads or tails.
C13_InvalidChoiceRejected ==
    /\ \A o \in RoomObjs, p \in PlayerIds, a \in BetAmounts, c \in Choices \ Sides :
          /\ PlaceBetErr(rooms[o], p, a, c) # ErrNone
          /\ PlaceBet(rooms[o], p, a, c) = rooms[o]
    /\ \A o \in RoomObjs : \A p \in DOMAIN Ledger(rooms[o]) :
          Ledger(rooms[o])[p].Choice \in Sides

\* The betting timer's callback runs in room o, which is running and in
\* Betting.
BettingExpires(o) ==
    /\ BettingTimerCallback(o)
    /\ rooms[o].gameState = StateBetting
    /\ ~rooms[o].stopped

\* C14: resolution draws one side; each bettor whose side equals it is
\* credited amount x payoutRatio, every other bettor's balance is left as it
\* is, players without a bet are unchanged, and the round keeps one result
\* per bettor with won, payout and resulting balance consistent with this.
C14_Resolution ==
    [][\A o \in RoomObjs :
          (BettingExpires(o) /\ DOMAIN Ledger(rooms[o]) # {}) =>
              LET bets == Ledger(rooms[o])
                  coin == rooms'[o].currentRound.CoinResult
                  ratio == rooms[o].config.PayoutRatio
                  Credit(p) == IF bets[p].Choice = coin
                               THEN bets[p].Amount * ratio ELSE 0
              IN  /\ coin \in Sides
                  /\ rooms'[o].fault = NoFault
                  /\ DOMAIN rooms'[o].players = DOMAIN rooms[o].players
                  /\ \A p \in DOMAIN bets :
                        rooms'[o].players[p].Balance =
                            rooms[o].players[p].Balance + Credit(p)
                  /\ \A q \in DOMAIN rooms[o].players \ DOMAIN bets :
                        rooms'[o].players[q] = rooms[o].players[q]
                  /\ DOMAIN rooms'[o].currentRound.Results = DOMAIN bets
                  /\ \A p \in DOMAIN bets :
                        LET res == rooms'[o].currentRound.Results[p] IN
                        /\ res.Bet = bets[p]
                        /\ res.Won = (bets[p].Choice = coin)
                        /\ res.Payout = Credit(p)
                        /\ res.NewBalance = rooms'[o].players[p].Balance]_vars

\* A resolved round with a winner and a loser.
C14_Witness ==
    \E o \in RoomObjs :
        /\ rooms[o].gameState = StateResult
        /\ \E p, q \in DOMAIN rooms[o].currentRound.Results :
              /\ rooms[o].currentRound.Results[p].Won
              /\ ~rooms[o].currentRound.Results[q].Won

\* C15: when the betting timer expires with an empty ledger the room goes
\* to Waiting with the round discarded, no game_result is enqueued, no
\* result timer is armed and no player record changes.
C15_ZeroBetExpiry ==
    [][\A o \in RoomObjs :
          (BettingExpires(o) /\ DOMAIN Ledger(rooms[o]) = {}) =>
              /\ rooms'[o].gameState = StateWaiting
              /\ ~HasRound(rooms'[o])
              /\ rooms'[o].players = rooms[o].players
              /\ rooms'[o].resultPending = rooms[o].resultPending
              /\ rooms'[o].eventChan \in
                    {rooms[o].eventChan, Append(rooms[o].eventChan, "room_update")}]_vars

\* Round 1 ended without a result: the room is back in Waiting with every
\* player at the balance it joined with and nothing left to fire.
C15_Witness ==
    \E o \in RoomObjs :
        /\ rooms[o].totalRounds = 1
        /\ rooms[o].gameState = StateWaiting
        /\ ~rooms[o].stopped
        /\ rooms[o].resultPending = 0 /\ rooms[o].endPending = 0
        /\ rooms[o].graceTasks = 0 /\ rooms[o].autoTasks = 0
        /\ NumPlayersIn(rooms[o]) >= rooms[o].config.MinPlayers
        /\ \A p \in DOMAIN rooms[o].players :
              rooms[o].players[p].Balance = JoinBalance

\* C16: when the betting timer expires with a bet in the ledger the room
\* enters Result, keeping its round, with one game_result sent to the queue
\* and one result timer armed; Result is entered by no other step, and left
\* only by the result timer, for Waiting; a running room in Result has
\* exactly one result timer.
C16_ResultPath ==
    /\ [][\A o \in RoomObjs :
            /\ (BettingExpires(o) /\ DOMAIN Ledger(rooms[o]) # {}) =>
                  /\ rooms'[o].gameState = StateResult
                  /\ rooms'[o].currentRound.ID = rooms[o].currentRound.ID
                  /\ rooms'[o].resultPending = rooms[o].resultPending + 1
                  /\ rooms'[o].eventChan =
                        IF Len(rooms[o].eventChan) < EventCap
                        THEN Append(rooms[o].eventChan, "game_result")
                        ELSE rooms[o].eventChan
            /\ (rooms[o].gameState # StateResult /\ rooms'[o].gameState = StateResult) =>
                  /\ rooms[o].gameState = StateBetting
                  /\ DOMAIN Ledger(rooms[o]) # {}
                  /\ BettingTimerCallback(o)
            /\ (rooms[o].gameState = StateResult /\ rooms'[o].gameState # StateResult) =>
                  /\ ResultTimerCallback(o)
                  /\ rooms'[o].gameState = StateWaiting]_vars
    /\ [](\A o \in RoomObjs :
            (rooms[o].gameState = StateResult /\ ~rooms[o].stopped) =>
                rooms[o].resultPending = 1)

\* The result of round 1 is in the queue and its result timer is running.
C16_Witness ==
    \E o \in RoomObjs :
        /\ rooms[o].gameState = StateResult
        /\ rooms[o].resultPending = 1
        /\ rooms[o].eventChan = <<"game_result">>
        /\ rooms[o].totalRounds = 1

\* C17: a bet held in the ledger of an unresolved round is later resolved
\* (the round reaches Result) or gone from the ledger (refunded with its
\* player's departure or discarded with the round), unless the room is
\* stopped.
C17_BetEventuallySettled ==
    \A o \in RoomObjs, p \in PlayerIds :
        (p \in DOMAIN Ledger(rooms[o])
            /\ rooms[o].gameState \in {StateBetting, StatePaused})
        ~> \/ p \notin DOMAIN Ledger(rooms[o])
           \/ rooms[o].gameState = StateResult
           \/ rooms[o].stopped

\* A player id that no caller of the model uses.
NewcomerId == NumPlayers + 1

\* C18: the roster never holds more than MaxPlayers players; on a full
\* roster AddPlayer fails with ErrRoomFull for any id, known or new, and
\* leaves the room as it was; on any roster a further AddPlayer stays within
\* MaxPlayers.  AddPlayer holds the room's lock from entry to return, so
\* concurrent calls are the interleavings of these steps.
C18_RosterWithinMax ==
    \A o \in RoomObjs :
        LET rm == rooms[o] IN
        /\ NumPlayersIn(rm) <= rm.config.MaxPlayers
        /\ \A p \in PlayerIds \cup {NewcomerId} :
              /\ NumPlayersIn(AddPlayer(rm, p, JoinBalance)) <= rm.config.MaxPlayers
              /\ NumPlayersIn(rm) = rm.config.MaxPlayers =>
                    /\ AddPlayerErr(rm, p, JoinBalance) = ErrRoomFull
                    /\ AddPlayer(rm, p, JoinBalance) = rm

C18_Witness ==
    \E o \in RoomObjs :
        /\ NumPlayersIn(rooms[o]) = rooms[o].config.MaxPlayers
        /\ rooms[o].gameState = StateWaiting
        /\ rooms[o].autoTasks = MaxTasks
        /\ AddPlayerErr(rooms[o], NewcomerId, JoinBalance) = ErrRoomFull

\* C19: whenever the phase is Betting the roster holds at least MinPlayers
\* players; a StartGame that enters Betting does so on such a roster, and a
\* RemovePlayer that brings the roster below MinPlayers leaves Betting.
C19_BettingHasMinPlayers ==
    \A o \in RoomObjs :
        LET rm == rooms[o] IN
        /\ rm.gameState = StateBetting => NumPlayersIn(rm) >= rm.config.MinPlayers
        /\ StartGame(rm).gameState = StateBetting =>
              NumPlayersIn(StartGame(rm)) >= rm.config.MinPlayers
        /\ \A p \in PlayerIds :
              NumPlayersIn(RemovePlayer(rm, p)) < rm.config.MinPlayers =>
                  RemovePlayer(rm, p).gameState # StateBetting

C19_Witness ==
    \E o \in RoomObjs :
        /\ rooms[o].gameState = StatePaused
        /\ NumPlayersIn(rooms[o]) < rooms[o].config.MinPlayers
        /\ Ledger(rooms[o]) = EmptyMap
        /\ rooms[o].autoTasks > 0

\* C20: an AddPlayer on a room that is Betting with at least MinPlayers
\* players leaves the round, its ledger and the round counter as they were
\* and spawns no auto-start goroutine; and of the auto-start goroutines
\* spawned while the room was Waiting before its first round only one
\* creates a round: one that runs when a round was already created creates
\* none.
C20_AutoStartIdempotent ==
    [][\A o \in RoomObjs :
         /\ \A p \in PlayerIds :
              (/\ CallAddPlayer(o, p, JoinBalance)
               /\ rooms[o].gameState = StateBetting
               /\ NumPlayersIn(rooms[o]) >= rooms[o].config.MinPlayers)
              => /\ rooms'[o].currentRound = rooms[o].currentRound
                 /\ rooms'[o].totalRounds = rooms[o].totalRounds
                 /\ rooms'[o].autoTasks = rooms[o].autoTasks
         /\ (AutoStart(o, MaxRounds) /\ rooms[o].totalRounds >= 1)
              => rooms'[o].totalRounds = rooms[o].totalRounds]_vars

\* C21: RemovePlayer of an id that is not in the roster fails with
\* ErrPlayerNotFound and leaves the room as it was.  Of an id in the roster
\* it succeeds, and when it returns the id is in neither the roster nor the
\* ledger, the record taken out of the roster had been credited with the
\* amount of its ledger entry, and every other player's record and ledger
\* entry are as before.
C21_RemovePlayer ==
    \A o \in RoomObjs : \A p \in PlayerIds \cup {NewcomerId} :
        LET rm == rooms[o]
            after == RemovePlayer(rm, p)
        IN  IF p \notin DOMAIN rm.players
            THEN /\ RemovePlayerErr(rm, p) = ErrPlayerNotFound
                 /\ after = rm
            ELSE /\ RemovePlayerErr(rm, p) = ErrNone
                 /\ after.fault = NoFault =>
                      /\ p \notin DOMAIN after.players
                      /\ p \notin DOMAIN Ledger(after)
                      /\ RemovedPlayer(rm, p).Balance
                            = rm.players[p].Balance
                              + (IF p \in DOMAIN Ledger(rm) THEN Ledger(rm)[p].Amount ELSE 0)
                      /\ DOMAIN after.players = DOMAIN rm.players \ {p}
                      /\ DOMAIN Ledger(after) = DOMAIN Ledger(rm) \ {p}
                      /\ \A q \in DOMAIN after.players : after.players[q] = rm.players[q]
                      /\ \A q \in DOMAIN Ledger(after) : Ledger(after)[q] = Ledger(rm)[q]

\* A bettor has left a round that goes on with the others.
C21_Witness ==
    \E o \in RoomObjs : \E q \in DOMAIN rooms[o].players :
        /\ rooms[o].gameState = StatePaused
        /\ rooms[o].totalRounds = 1
        /\ Ledger(rooms[o]) = EmptyMap
        /\ rooms[o].players[q].Balance = JoinBalance
        /\ \E p \in PlayerIds \ DOMAIN rooms[o].players :
              RemovePlayerErr(rooms[o], p) = ErrPlayerNotFound
        /\ rooms[o].eventChan = <<"bet_placed">>

\* C22: a RemovePlayer that brings the roster of a Betting room below
\* MinPlayers leaves the room Paused with its betting timer stopped; a Paused
\* room has no betting timer armed, and a betting-timer callback that had
\* already been started and gets the lock in a Paused room changes neither
\* phase, round, balances nor event queue.
C22_PauseCancelsExpiry ==
    /\ [](\A o \in RoomObjs :
            /\ rooms[o].gameState = StatePaused => ~rooms[o].timerArmed
            /\ \A p \in DOMAIN rooms[o].players :
                  LET after == RemovePlayer(rooms[o], p) IN
                  (/\ rooms[o].gameState = StateBetting
                   /\ NumPlayersIn(after) < rooms[o].config.MinPlayers)
                  => /\ after.gameState = StatePaused
                     /\ ~after.timerArmed)
    /\ [][\A o \in RoomObjs :
            (rooms[o].gameState = StatePaused /\ BettingTimerCallback(o)) =>
                RoomCore(rooms'[o]) = RoomCore(rooms[o])]_vars

\* The timer had fired before the room was paused, and its callback is
\* still waiting for the lock.
C22_Witness ==
    \E o \in RoomObjs :
        /\ rooms[o].gameState = StatePaused
        /\ rooms[o].endPending > 0
        /\ DOMAIN Ledger(rooms[o]) # {}
        /\ ~rooms[o].stopped

\* C23: PlaceBet and the betting timer's callback each run under the room
\* lock from start to end.  A PlaceBet that runs when the phase is no longer
\* Betting fails with ErrInvalidGamePhase and leaves the room as it was; a
\* round whose outcome has been generated is not in Betting, so it accepts
\* no bet; and every bet in the ledger when the callback runs in a running
\* room gets a result of that round.
C23_BetRacesExpiry ==
    /\ [](\A o \in RoomObjs :
            /\ rooms[o].currentRound.CoinResult # None =>
                  rooms[o].gameState # StateBetting
            /\ rooms[o].gameState # StateBetting =>
                  \A p \in PlayerIds, a \in BetAmounts, c \in Sides :
                      /\ PlaceBetErr(rooms[o], p, a, c) = ErrInvalidGamePhase
                      /\ PlaceBet(rooms[o], p, a, c) = rooms[o])
    /\ [][\A o \in RoomObjs :
            BettingExpires(o) =>
                \A p \in DOMAIN Ledger(rooms[o]) :
                    /\ rooms'[o].currentRound.ID = rooms[o].currentRound.ID
                    /\ p \in DOMAIN rooms'[o].currentRound.Results
                    /\ rooms'[o].currentRound.Results[p].Bet = Ledger(rooms[o])[p]]_vars

\* The betting timer has fired and its callback has not yet taken the lock;
\* one player's bet is in, the other can still bet.
C23_Witness ==
    \E o \in RoomObjs :
        /\ rooms[o].gameState = StateBetting
        /\ rooms[o].endPending > 0
        /\ ~rooms[o].stopped
        /\ \E p, q \in DOMAIN rooms[o].players :
              /\ p \in DOMAIN Ledger(rooms[o])
              /\ PlaceBetErr(rooms[o], q, DefaultMinBet, "heads") = ErrNone

\* The room with its event queue emptied.
Drained(rm) == [rm EXCEPT !.eventChan = << >>]

\* C24: the event queue never holds more than its capacity; on a full queue
\* of a running room broadcastMessage returns with the queue as it was (the
\* new event is dropped); and what any room operation or timer callback does
\* to the rest of the room is the same whatever the queue holds, so no
\* transition waits for a reader of the queue.
C24_EventsNeverBlock ==
    \A o \in RoomObjs :
        LET rm == rooms[o]
            SameButQueue(a, b) == Drained(a) = Drained(b)
        IN  /\ Len(rm.eventChan) <= EventCap
            /\ (Len(rm.eventChan) = EventCap /\ ~rm.stopped /\ rm.fault = NoFault) =>
                  \A kind \in {"room_update", "bet_placed", "bet_phase",
                               "game_start", "game_result", "timer_update"} :
                      broadcastMessage(rm, kind) = rm
            /\ \A p \in PlayerIds :
                  /\ SameButQueue(AddPlayer(rm, p, JoinBalance),
                                  AddPlayer(Drained(rm), p, JoinBalance))
                  /\ SameButQueue(RemovePlayer(rm, p), RemovePlayer(Drained(rm), p))
                  /\ \A a \in BetAmounts, c \in Sides :
                        SameButQueue(PlaceBet(rm, p, a, c), PlaceBet(Drained(rm), p, a, c))
            /\ SameButQueue(StartGame(rm), StartGame(Drained(rm)))
            /\ \A coinResult \in Sides :
                  SameButQueue(endBettingPhase(rm, coinResult),
                               endBettingPhase(Drained(rm), coinResult))
            /\ SameButQueue(resultTimerCallback(rm), resultTimerCallback(Drained(rm)))

\* A round was resolved while the queue still held the event of a bet: the
\* game_result found the queue full.
C24_Witness ==
    \E o \in RoomObjs :
        /\ rooms[o].gameState = StateResult
        /\ rooms[o].eventChan = <<"bet_placed">>
        /\ Len(rooms[o].eventChan) = EventCap
        /\ rooms[o].resultPending = 1

\* C25: performCleanup stops and deletes a room only if its roster is
\* empty at that moment, and leaves alone a room it finds with a player; a
\* room it finds empty it stops and deletes from s.rooms before it goes on.
C25_ReapOnlyEmpty ==
    [][/\ CleanupReap =>
            /\ NumPlayersIn(rooms[srv.table[srv.reaping]]) = 0
            /\ rooms'[srv.table[srv.reaping]].stopped
            /\ srv'.table[srv.reaping] = 0
       /\ \A rid \in RoomIds :
            CleanupVisit(rid) =>
                /\ srv'.table = srv.table /\ rooms' = rooms
                /\ (srv'.reaping = rid) <=> (NumPlayersIn(rooms[srv.table[rid]]) = 0)]_vars

\* C26: whenever a connection is between two commands (its readPump is in
\* ReadMessage), the player it carries is in the roster of no room other
\* than the one s.clients maps the connection to.
C26_OneRoomPerConnection ==
    \A c \in ClientIds :
        (clients[c].rpc = "read" /\ clients[c].playerID # 0) =>
            \A o \in RoomObjs :
                clients[c].playerID \in DOMAIN rooms[o].players => clients[c].reg = o

\* The step handles a command of connection c that is rejected: one that
\* handleMessage, handleJoinRoom, handleLeaveRoom or handlePlaceBet turns
\* down by itself, a join the room refuses, or a bet the room refuses.
Rejected(c) ==
    \/ \E m \in ClientMsgs : ReceivePlain(c, m)
    \/ /\ JoinAdd(c)
       /\ AddPlayerErr(rooms[clients[c].jroom], clients[c].jpid, JoinBalance) # ErrNone
    \/ \E m \in ClientMsgs :
          /\ ReceiveBet(c, m)
          /\ PlaceBetErr(rooms[clients[c].room], clients[c].playerID,
                         m.amount, m.choice) # ErrNone

\* C27: the handling of a rejected command puts one error reply on the
\* outbound buffer of the connection it came from (when that buffer is open
\* and has room), leaves every other connection's buffer alone, and changes
\* no room.
C27_RejectionReplies ==
    [][\A c \in ClientIds :
          Rejected(c) =>
              /\ rooms' = rooms
              /\ \A d \in ClientIds \ {c} : clients'[d].send = clients[d].send
              /\ (~clients[c].sendClosed /\ Len(clients[c].send) < SendCap) =>
                    Len(clients'[c].send) = Len(clients[c].send) + 1]_vars

\* Every dial of attemptReconnect so far has failed: the one connection the
\* client ever had is the one its caller's Connect() dialed.
AttemptsAllFailed == net.dials <= 1

\* No attemptReconnect goroutine is waiting to count or to dial.
NoAttemptPending == net.atStart = 0 /\ net.atDial = 0

Written(g, type, rid) ==
    \E i \in DOMAIN net.wire : net.wire[i] = <<g, type, rid>>

\* C29: the closure of the connection and the reconnect attempts leave
\* currentRoom as it was; an attemptReconnect whose Connect() returned nil
\* calls JoinRoom for currentRoom, and for no other room, if currentRoom is
\* not "", and calls nothing if it is ""; that JoinRoom, on a client still
\* connected, writes one join_room for that room id to the connection.
C29_RejoinsSameRoom ==
    [][/\ (\/ \E g \in Dials : HandleDisconnectLocked(g) \/ HandleDisconnect(g)
           \/ AttemptBegin
           \/ \E dialOk \in BOOLEAN : AttemptDial(dialOk)
           \/ AttemptRejoin) => net'.currentRoom = net.currentRoom
       /\ AttemptRejoin =>
            /\ net'.wire = net.wire
            /\ net'.rejoin = IF net.connected /\ net.conn # 0 THEN net.currentRoom ELSE 0
       /\ (RejoinWrite /\ ~WriteFails(net)) =>
            /\ net'.wire = Append(net.wire, <<net.conn, "join_room", net.rejoin>>)
            /\ net'.currentRoom = net.rejoin]_vars

\* The caller connected and joined the second room id on the first
\* connection, and nothing else; the second connection carries a join_room
\* for the same room id.
C29_Witness ==
    /\ net.calls = 2
    /\ Written(1, "join_room", NumRoomIds + 1)
    /\ Written(2, "join_room", NumRoomIds + 1)

\* C30: once Disconnect() has cancelled the context (the caller not calling
\* Connect() again), the client is not connected and has no open
\* connection, no attemptReconnect goroutine is started or running, and
\* none starts.
C30_DisconnectIsFinal ==
    /\ [](net.cancelled => ~net.connected /\ net.conn = 0 /\ NoAttemptPending)
    /\ [][net.cancelled => net'.reconnectCount = net.reconnectCount]_vars

\* The balance Engine.GetPlayer reports for the player when the repository
\* works: the stored one, or the starting balance of a player not stored yet.
BalanceOf(e, playerID) ==
    IF playerID \in DOMAIN e.players THEN e.players[playerID].Balance
    ELSE e.config.StartingBalance

\* The collaborators' behaviours in which the repository's GetPlayer finds
\* the player if it is stored.
LoadsStored(e, playerID) ==
    {io \in EngineIO : playerID \in DOMAIN e.players => io.getOk}

\* C31: Engine.PlaceBet returns ErrInvalidChoice for a side that is neither
\* heads nor tails, ErrInvalidBetAmount for an amount outside [MinBet,
\* MaxBet], ErrInsufficientBalance for an amount above the balance, and an
\* error when the save of the balance fails; whenever it returns an error the
\* player's balance and the current bet are as before; when it returns nil
\* the balance is lower by exactly the amount and the current bet is the bet
\* placed.
C31_EnginePlaceBet ==
    \A p \in EnginePlayerIds, amount \in EngineAmounts, choice \in Choices :
        \A io \in LoadsStored(eng, p) :
            LET after == EnginePlaceBet(eng, p, amount, choice, io)
                err == after.ret.err
                inRange == amount >= EngMinBet /\ amount <= EngMaxBet
                loaded == p \in DOMAIN eng.players \/ io.createOk IN
            /\ choice \notin Sides => err = ErrInvalidChoice
            /\ (choice \in Sides /\ ~inRange) => err = ErrInvalidBetAmount
            /\ (choice \in Sides /\ inRange /\ loaded /\ amount > BalanceOf(eng, p)) =>
                    err = ErrInsufficientBalance
            /\ (choice \in Sides /\ inRange /\ loaded /\ amount <= BalanceOf(eng, p)
                    /\ ~io.saveOk) => err = "failed to update player balance"
            /\ err # ErrNone =>
                    /\ BalanceOf(after, p) = BalanceOf(eng, p)
                    /\ after.currentBet = eng.currentBet
            /\ err = ErrNone =>
                    /\ BalanceOf(after, p) = BalanceOf(eng, p) - amount
                    /\ after.currentBet = [Amount |-> amount, Choice |-> choice]

\* A PlaceBet has just failed at the save of the balance, with an earlier bet
\* still current.
C31_Witness ==
    /\ eng.ret = [op |-> "PlaceBet", err |-> "failed to update player balance"]
    /\ eng.currentBet # NoBet

\* C32: with collaborators that work, a PlaceBet that succeeds followed by
\* CancelCurrentBet leaves the player's balance as it was before the bet and
\* no current bet; CancelCurrentBet on an engine with no current bet returns
\* ErrGameNotActive and changes nothing.
C32_BetCancelRoundTrip ==
    \A p \in EnginePlayerIds :
        /\ \A amount \in EngineAmounts, choice \in Choices :
             \A io \in {i \in EngineIO : AllOk(i)} :
                LET placed == EnginePlaceBet(eng, p, amount, choice, io)
                    back == EngineCancelCurrentBet(placed, p, io) IN
                placed.ret.err = ErrNone =>
                    /\ back.ret.err = ErrNone
                    /\ BalanceOf(back, p) = BalanceOf(eng, p)
                    /\ back.currentBet = NoBet
        /\ eng.currentBet = NoBet =>
             \A io \in EngineIO :
                EngineCancelCurrentBet(eng, p, io) =
                    Return(eng, "CancelCurrentBet", ErrGameNotActive)

\* A bet was placed and cancelled, and the balance is the starting balance
\* again.
C32_Witness ==
    /\ eng.calls = 2
    /\ eng.ret = [op |-> "CancelCurrentBet", err |-> ErrNone]
    /\ eng.currentBet = NoBet
    /\ \E p \in DOMAIN eng.players : eng.players[p] = NewPlayer

\* What was deducted from the player's balance by bets and not yet refunded
\* or resolved: the starting balance and the net of the resolved games make
\* the balance the player would have with no bet open.
Deducted(e, playerID) ==
    IF playerID \in DOMAIN e.players
    THEN e.config.StartingBalance + e.players[playerID].NetProfit
            - e.players[playerID].Balance
    ELSE 0

\* C39: the funds deducted from a player and neither refunded nor resolved
\* never exceed the amount of the engine's current bet.
C39_DeductedIsCurrentBet ==
    \A p \in EnginePlayerIds : Deducted(eng, p) <= eng.currentBet.Amount

\* C40: when FlipCoin returns an error the repository's players are as
\* before the call, and when it returns nil the engine has no current bet
\* (collaborators in which a stored player is either loaded or neither
\* loaded nor created anew).
C40_FlipCoinPaysOnce ==
    [][\A p \in EnginePlayerIds :
          \A io \in {i \in EngineIO : i.getOk \/ ~i.createOk} :
              CallEngineFlipCoin(p, io) =>
                  IF eng'.ret.err # ErrNone
                  THEN eng'.players = eng.players
                  ELSE eng'.currentBet = NoBet]_vars

\* The step deletes or re-maps an entry of s.clients, or closes a
\* connection's outbound buffer.
WritesRegistry ==
    \E c \in ClientIds :
        \/ clients'[c].reg # clients[c].reg
        \/ clients'[c].sendClosed /\ ~clients[c].sendClosed

\* The step is one of a function that holds s.mu for reading:
\* broadcastToRoom or pingClients.
UnderReadLock ==
    \/ PingClients
    \/ \E o \in RoomObjs : RelayClose(o)
    \/ \E o \in RoomObjs, c \in ClientIds : RelayVisit(o, c)

\* C33: a step that changes the connection-to-room map or closes an
\* outbound buffer is not one of a function that holds s.mu for reading, and
\* no relay is inside its read-locked loop while it is taken.
C33_RegistryWritesExclusive ==
    [][WritesRegistry =>
          /\ ~UnderReadLock
          /\ \A o \in RoomObjs : ~relay[o].inLoop]_vars

\* The countdown goroutines of the room that have not returned.
Broadcasters(rm) == rm.tickers + rm.tickSending

\* C34: a room never has two countdown goroutines alive, and a countdown
\* goroutine sends a timer_update only while the phase is Betting.
C34_OneCountdown ==
    /\ [](Broadcasters(rooms[TheRoom]) <= 1)
    /\ [][TickerSend(TheRoom) => rooms[TheRoom].gameState = StateBetting]_vars

\* C35: a connection that is closed and whose player is in the roster of
\* the room the connection joined is later without that player in that
\* roster (unless the process has panicked).
C35_ClosedLeavesRoster ==
    \A c \in ClientIds, o \in RoomObjs, p \in PlayerIds :
        (/\ clients[c].conn = "closed"
         /\ clients[c].room = o /\ clients[c].playerID = p
         /\ p \in DOMAIN rooms[o].players)
        ~> (p \notin DOMAIN rooms[o].players \/ Faulted)

\* C36: a connection that s.clients maps to a room, and whose handler has
\* returned, is mapped to a room that is in s.rooms and is not stopped.
C36_JoinedRoomIsLive ==
    \A c \in ClientIds :
        (clients[c].rpc = "read" /\ clients[c].reg > 0) =>
            /\ \E rid \in RoomIds : srv.table[rid] = clients[c].reg
            /\ ~rooms[clients[c].reg].stopped

\* C37: the CreateRoom of a join that found no room of its id hands the
\* join a room of that id, which s.rooms holds, and the join goes on to
\* AddPlayer with no error reply.
C37_ConcurrentFirstJoins ==
    [][\A c \in ClientIds :
          JoinCreate(c) =>
              /\ clients'[c].rpc = "joinAdd"
              /\ clients'[c].jroom = srv'.table[clients[c].jrid]
              /\ clients'[c].send = clients[c].send]_vars

\* C38: a room that is Waiting with at least MinPlayers players (and may
\* still start a round) is later in Betting, unless it is stopped or its
\* roster falls below MinPlayers.
C38_WaitingLeadsToBetting ==
    \A o \in RoomObjs :
        (/\ rooms[o].gameState = StateWaiting
         /\ NumPlayersIn(rooms[o]) >= rooms[o].config.MinPlayers
         /\ ~rooms[o].stopped
         /\ rooms[o].totalRounds < MaxRounds)
        ~> \/ rooms[o].gameState = StateBetting
           \/ rooms[o].stopped
           \/ NumPlayersIn(rooms[o]) < rooms[o].config.MinPlayers

====
